---- MODULE Spec2Model ----
(***************************************************************************)
(* The event dispatcher of the slot game (src/src/events/EventBus.ts):     *)
(* the registry of listeners, the subscription handles, and emit as the    *)
(* sequence of listener invocations it performs.  A listener is code of    *)
(* the caller: while it runs it may call subscribe, subscribeToAll,        *)
(* unsubscribe and emit on the same dispatcher.                            *)
(*                                                                         *)
(* The registry uses ECMAScript Map and Set.  A Set keeps its elements in  *)
(* insertion order, add of a present element changes nothing, and forEach  *)
(* walks the live entry list: an element added while the walk is running   *)
(* is visited, an element deleted before the walk reaches it is not.  A    *)
(* Set is modelled as a sequence without duplicates, and a running forEach *)
(* as the number of entries it has passed.                                 *)
(***************************************************************************)
EXTENDS Integers, Sequences, FiniteSets, Bags, TLC

\* ---------------------------------------------------------------- bounds
MaxHandles == 3      \* subscription handles the callers hold at a time
MaxHandlesMutating == 2  \* the same, where listeners subscribe or clear() is used
MaxHandlesStar == 1  \* the same, where "*" is used as an event type
MaxDepth == 2        \* emit calls in progress at a time (nested emits)
MaxOps == 2          \* dispatcher calls one listener invocation makes
MaxEmits == 2        \* emit calls in one run
MaxHistoryEmits == 1002  \* emit calls in one run that fills the history
MaxStarts == 2       \* start() calls that install a handler's subscriptions
MaxLogged == 3       \* entries in the logger's buffer when log() is called
MaxLevelStarts == 1  \* start() calls of the logger where log() is called
MaxLoggedEmits == 3  \* emit calls in one run with the logger
MaxInits == 2        \* initialize() calls that construct the handlers
MaxCreated == 3      \* event records created in one run
MaxTicks == 2        \* milliseconds that pass in one run
MaxRandom == 1       \* the greatest random part of an id

\* ------------------------------------------------------ program constants
maxHistorySize == 1000
\* enum LogLevel
NONE == 0
ERROR == 1
WARN == 2
INFO == 3
DEBUG == 4
VERBOSE == 5
\* EventLogger, the maxLogEntries of a configuration that gives none
defaultMaxLogEntries == 1000
\* EventLogger.saveToLocalStorage, the entries it saves
recentLogs == 100
\* EventManager.initializeEventLogger, the maxLogEntries it gives
managedMaxLogEntries == 1000
\* EventUtils: the characters of an id, those of its timestamp part, and the
\* base of its digits
ulidLength == 26
timeLength == 10
base32 == 32

\* ------------------------------------------------------------- the inputs
Listeners == {"A", "B", "C"}
\* B is a handler object with a canHandle predicate; A and C are callbacks.
HasCanHandle == {"B"}
\* Event types the callers subscribe to, and the ones they emit
SubscribedTypes == {"win", "spin"}
\* the event types emitted next to the logger
LoggedTypes == {"x"}
\* the event types emitted next to a logger with filters
FilteredTypes == {"a", "b", "c"}
\* the event types emitted while the settings of the logger change
ConfiguredTypes == {"a", "b"}
\* the filterEventTypes and excludeEventTypes of its configuration
IncludeInputs == {{}, {"a"}}
ExcludeInputs == {{}, {"b"}, {"a", "b"}}
\* the maxLogEntries of the configurations of a logger with a small buffer
CapacityInputs == {1, 2}
\* the levels log() and updateConfig() are called with
LevelInputs == {ERROR, DEBUG}
EmittedTypes == {"win"}
\* "*" is a string like any other for subscribe and emit
StarTypes == {"*"}
NoListener == "none"

VARIABLES
    listeners,          \* EventBus.listeners: type -> Set, as a function
                        \* whose domain is the keys of the Map
    wildcardListeners,  \* EventBus.wildcardListeners
    eventHistory,       \* EventBus.eventHistory
    emitted,            \* the number of emit calls made so far: the events
                        \* are distinct objects, told apart by it
    handles,            \* the EventSubscription objects the callers hold,
                        \* as a bag: objects with equal fields act alike
    stack,              \* the emit calls in progress, outermost first
    uncaught,           \* an exception has left the outermost emit
    cleared,            \* the subscriptions clear() has dropped (and that
                        \* were not made again since)
    retired,            \* the subscriptions a listener has ended from within
                        \* its own invocation (and not made again since)
                        \* whose listener is in its Set all the same
    handlerState,       \* the BaseEventHandler objects: isActive and
                        \* subscriptions of each
    logger,             \* the EventLogger object: isActive, config and logs
    localStorage,       \* the item 'slot-game-event-logs' of localStorage
    manager,            \* the EventManager object: isInitialized, handlers,
                        \* eventLogger and debugConsole
    ids                 \* Date.now() and the ids of the event records
                        \* created so far, in order of creation

vars == <<listeners, wildcardListeners, eventHistory, emitted, handles, stack,
          uncaught, cleared,
          retired, handlerState, logger, localStorage, manager, ids>>

\* ------------------------------------------------------ sequences as Sets
Range(s) == {s[i] : i \in 1..Len(s)}

\* Set.prototype.add
SetAdd(s, x) == IF x \in Range(s) THEN s ELSE Append(s, x)

\* Set.prototype.delete
SetDelete(s, x) == SelectSeq(s, LAMBDA y : y # x)

\* An unsubscribe that leaves the emptied Set in the Map
MapKeepEmpty(m, k) == [x \in DOMAIN m |-> IF x = k THEN <<>> ELSE m[x]]

\* Map.prototype.delete
MapDelete(m, k) == [x \in (DOMAIN m) \ {k} |-> m[x]]

\* Map.prototype.set
MapSet(m, k, v) == [x \in (DOMAIN m) \cup {k} |-> IF x = k THEN v ELSE m[x]]

\* -------------------------------------------------- subscription handles
\* new EventSubscription(this, eventType, listener).  Three fields record
\* what the object itself does not: viaAll, that subscribeToAll made it,
\* added, that its subscribe call added the listener to a Set, and again,
\* that unsubscribe() was called on it when it was no longer active.
NewHandle(eventType, listener, all, new) ==
    [eventType |-> eventType, listener |-> listener, active |-> TRUE,
     viaAll |-> all, added |-> new, again |-> FALSE]

\* The handle after its unsubscribe()
Spent(hd) ==
    [hd EXCEPT !.active = FALSE, !.viaAll = FALSE, !.added = FALSE,
               !.again = ~hd.active]

Held == BagToSet(handles)

\* The callers hold up to n handles: with a new one they may have to let go
\* of one they have already unsubscribed.
Holding(hd, n) ==
    IF BagCardinality(handles) < n
    THEN {handles (+) SetToBag({hd})}
    ELSE {(handles (-) SetToBag({old})) (+) SetToBag({hd}) :
            old \in {x \in Held : ~x.active}}

\* --------------------------------------------------------- the dispatcher
\* EventBus.subscribe: the registry after subscribe(eventType, listener)
subscribe(reg, eventType, listener) ==
    MapSet(reg, eventType,
           SetAdd(IF eventType \in DOMAIN reg THEN reg[eventType] ELSE <<>>,
                  listener))

\* EventBus.subscribeToAll: the wildcard Set after subscribeToAll(listener)
subscribeToAll(wild, listener) == SetAdd(wild, listener)

\* EventBus.unsubscribe: the registry and the wildcard Set after
\* unsubscribe(eventType, listener)
unsubscribe(reg, wild, eventType, listener) ==
    IF eventType = "*"
    THEN [listeners |-> reg, wildcardListeners |-> SetDelete(wild, listener)]
    ELSE IF eventType \in DOMAIN reg
         THEN LET eventListeners == SetDelete(reg[eventType], listener)
              IN  [listeners |-> IF Len(eventListeners) = 0
                                 THEN MapDelete(reg, eventType)
                                 ELSE MapSet(reg, eventType, eventListeners),
                   wildcardListeners |-> wild]
         ELSE [listeners |-> reg, wildcardListeners |-> wild]

\* The n-th event emitted, of a type
Event(eventType, n) == [type |-> eventType, n |-> n]

\* An emit that does not record the event
addToHistoryNever(history, event) == history

\* An addToHistory that keeps the oldest events
addToHistoryKeepOldest(history, event) ==
    IF Len(history) >= maxHistorySize THEN history ELSE Append(history, event)

\* EventBus.addToHistory
addToHistory(history, event) ==
    LET pushed == Append(history, event)
    IN  IF Len(pushed) > maxHistorySize THEN Tail(pushed) ELSE pushed

\* A clear() that leaves the wildcard listeners
clearTypesOnly(reg, wild) == [listeners |-> <<>>, wildcardListeners |-> wild]

\* EventBus.clear: the registry and the wildcard Set after clear()
clear(reg, wild) == [listeners |-> <<>>, wildcardListeners |-> <<>>]

\* EventBus.getSubscriberCount
getSubscriberCount(reg, eventType) ==
    IF eventType \in DOMAIN reg THEN Len(reg[eventType]) ELSE 0

\* EventBus.getRegisteredEventTypes
getRegisteredEventTypes == DOMAIN listeners

\* An EventSubscription whose unsubscribe() does not look at its active field
StillActive(hd) == TRUE

\* EventSubscription.isActive
isActive(hd) == hd.active

\* ------------------------------------------------ emit calls in progress
\* One emit call: the event's type, the forEach it is in ("type": the Set of
\* the event's type, "wild": the wildcard Set), the entries that forEach has
\* passed, and the listener it is calling (cur) with the dispatcher calls
\* that listener may still make (ops).  det: the Set the "type" forEach walks
\* is no longer the one in the Map (dset is its content).  The other fields
\* record what happened during the call: the listeners in the Set when the
\* forEach began (snap), whether a listener was subscribed since emit was
\* called (subs) and, as long as none was, the calls of callListener in order
\* (calls: the listener, the forEach, what canHandle answered and whether the
\* callback or handle was called), the first of them in which something was
\* raised (raisedAt, 0: none) and the listeners that were unsubscribed
\* (removed); old: clear() was called since emit was called.
Top == stack[Len(stack)]

Reverse(s) == [i \in 1..Len(s) |-> s[Len(s) + 1 - i]]

\* A forEach that walks its Set from the last entry added to the first
CurrentSetBackwards(act) ==
    Reverse(IF act.phase = "wild" THEN wildcardListeners
            ELSE IF act.det THEN act.dset
            ELSE listeners[act.type])

\* The Set a forEach of emit walks
CurrentSet(act) ==
    IF act.phase = "wild" THEN wildcardListeners
    ELSE IF act.det THEN act.dset
    ELSE listeners[act.type]

\* emit, lines 104-105: without a Set for the type, emit goes on to the
\* wildcard listeners
FirstPhase(eventType) ==
    IF eventType \in DOMAIN listeners THEN "type" ELSE "wild"

\* emit, lines 104-114: the forEach over the type's Set comes first
NextPhase(phase) == IF phase = "type" THEN "wild" ELSE "done"

PhaseSet(phase, eventType) ==
    IF phase = "wild" THEN wildcardListeners
    ELSE IF eventType \in DOMAIN listeners THEN listeners[eventType]
    ELSE <<>>

NewActivation(eventType) ==
    [type |-> eventType, n |-> emitted + 1,
     phase |-> FirstPhase(eventType), idx |-> 0,
     det |-> FALSE, dset |-> <<>>,
     cur |-> NoListener, ops |-> 0,
     snap |-> Range(PhaseSet(FirstPhase(eventType), eventType)),
     calls |-> <<>>, raisedAt |-> 0, subs |-> FALSE, removed |-> {},
     old |-> FALSE]

\* The caller of the dispatcher is the program outside any emit, or a
\* listener that is running.
CallerReady ==
    \/ stack = <<>>
    \/ /\ stack # <<>>
       /\ Top.cur # NoListener
       /\ Top.ops > 0

\* One dispatcher call made by the running listener.
Charge(stk) ==
    IF stk = <<>> THEN stk ELSE [stk EXCEPT ![Len(stk)].ops = @ - 1]

\* A walk by position, which a delete does not move
PassedByPosition(old, new, idx) == idx

\* A forEach that has passed idx entries of old has passed those of them
\* that are still in new.
Passed(old, new, idx) ==
    Cardinality({i \in 1..idx : old[i] \in Range(new)})

\* The emit calls in progress after the registry went from (reg, wild) to
\* (reg2, wild2) by a delete: a forEach over a Set the Map has dropped ends
\* (unsubscribe drops a Set only once it is empty).
Reseat(stk, reg, wild, reg2, wild2) ==
    [i \in 1..Len(stk) |->
        LET act == stk[i] IN
        IF act.phase = "wild"
        THEN [act EXCEPT !.idx = Passed(wild, wild2, act.idx)]
        ELSE IF act.det THEN act
        ELSE IF act.type \notin DOMAIN reg2
             THEN [act EXCEPT !.det = TRUE, !.dset = <<>>, !.idx = 0]
             ELSE [act EXCEPT
                     !.idx = Passed(reg[act.type], reg2[act.type], act.idx)]]

MarkSubscribed(stk) ==
    [i \in 1..Len(stk) |->
        [stk[i] EXCEPT !.subs = TRUE, !.calls = <<>>, !.raisedAt = 0,
                       !.removed = {}]]

MarkRemoved(stk, listener) ==
    [i \in 1..Len(stk) |->
        IF stk[i].subs THEN stk[i]
        ELSE [stk[i] EXCEPT !.removed = @ \cup {listener}]]

MarkAllRemoved(stk, gone) ==
    [i \in 1..Len(stk) |->
        IF stk[i].subs THEN stk[i]
        ELSE [stk[i] EXCEPT !.removed = @ \cup gone]]

\* The subscription a handle stands for: the listener in the Set of a type
\* (subscribe) or in the wildcard Set (subscribeToAll)
Registration(kind, eventType, listener) ==
    [kind |-> kind, eventType |-> IF kind = "wild" THEN "" ELSE eventType,
     l |-> listener]

HandleRegistration(hd) ==
    Registration(IF hd.viaAll THEN "wild" ELSE "type", hd.eventType,
                 hd.listener)

\* The subscription through which an emit call is calling its listener
CalledRegistration(act) == Registration(act.phase, act.type, act.cur)

\* The listener of a subscription is in the Set the subscription put it in
InRegistry(reg, wild, r) ==
    IF r.kind = "wild" THEN r.l \in Range(wild)
    ELSE /\ r.eventType \in DOMAIN reg
         /\ r.l \in Range(reg[r.eventType])

\* ----------------------------------------------------- the event logger
\* EventLogger's constructor, lines 50-57, with a configuration in which 0
\* stands for a field that is not given (and is as good as not given: the
\* code tests the fields with ||). made counts the functions start() has
\* subscribed, printed is what outputLog has written, since is the number
\* of events emitted before the last start(), steady, that the
\* configuration is the one of that start(), last, the method of the logger
\* that was called last, and failed, that its write to localStorage failed.
EventLoggerOf(config) ==
    [isActive |-> FALSE,
     config |-> [maxLogEntries |-> IF config.maxLogEntries = 0
                                   THEN defaultMaxLogEntries
                                   ELSE config.maxLogEntries,
                 logLevel |-> IF config.logLevel = 0 THEN INFO
                              ELSE config.logLevel,
                 enableLocalStorage |-> config.enableLocalStorage,
                 filterEventTypes |-> config.filterEventTypes,
                 excludeEventTypes |-> config.excludeEventTypes],
     logs |-> <<>>,
     made |-> 0, printed |-> {}, since |-> 0, steady |-> TRUE,
     last |-> "constructor", failed |-> FALSE]

\* The configuration {logLevel}
LevelConfig(logLevel) ==
    [maxLogEntries |-> 0, logLevel |-> logLevel,
     enableLocalStorage |-> FALSE,
     filterEventTypes |-> {}, excludeEventTypes |-> {}]

\* new EventLogger(eventBus, {logLevel})
NewEventLogger(logLevel) == EventLoggerOf(LevelConfig(logLevel))

\* The function the k-th start() of the logger subscribes: a new function
\* object every time
LoggerClosure(k) == "logger#" \o ToString(k)

LoggerClosures == {LoggerClosure(k) : k \in 1..logger.made}

\* EventLogEntry: an entry of the level, for an event or for a message of
\* the logger (of type 'logger:message'); gate is the threshold under
\* which it was added and active, that the logger was started then
LogEntry(event, level, gate, active) ==
    [type |-> event.type, n |-> event.n, level |-> level, gate |-> gate,
     active |-> active]

\* EventLogger.log, lines 110-114: the event of a message of the logger
MessageEvent == [type |-> "logger:message", n |-> 0]

\* EventLogger.addLogEntry and outputLog: the logger with one more entry
addLogEntry(lg, logEntry) ==
    [lg EXCEPT
        !.logs = IF Len(@) + 1 > lg.config.maxLogEntries
                 THEN Tail(Append(@, logEntry))
                 ELSE Append(@, logEntry),
        !.printed = @ \cup {[level |-> logEntry.level,
                             gate |-> logEntry.gate]}]

\* EventLogger.log: the logger after log(level, message)
log(lg, level) ==
    IF level > lg.config.logLevel THEN lg
    ELSE addLogEntry(lg, LogEntry(MessageEvent, level, lg.config.logLevel,
                                  lg.isActive))

\* A shouldLogEvent that looks at the exclude list first
shouldLogExcludeFirst(lg, event, level) ==
    IF level > lg.config.logLevel THEN FALSE
    ELSE IF event.type \in lg.config.excludeEventTypes THEN FALSE
    ELSE IF lg.config.filterEventTypes # {}
    THEN event.type \in lg.config.filterEventTypes
    ELSE TRUE

\* A shouldLogEvent that looks at the filters only
shouldLogAnyLevel(lg, event, level) ==
    IF lg.config.filterEventTypes # {}
    THEN event.type \in lg.config.filterEventTypes
    ELSE event.type \notin lg.config.excludeEventTypes

\* EventLogger.shouldLogEvent
shouldLogEvent(lg, event, level) ==
    IF level > lg.config.logLevel THEN FALSE
    ELSE IF lg.config.filterEventTypes # {}
    THEN event.type \in lg.config.filterEventTypes
    ELSE IF event.type \in lg.config.excludeEventTypes THEN FALSE
    ELSE TRUE

\* EventLogger.logEvent: the logger after logEvent(event, level)
logEvent(lg, event, level) ==
    IF ~shouldLogEvent(lg, event, level) THEN lg
    ELSE addLogEntry(lg, LogEntry(event, level, lg.config.logLevel,
                                  lg.isActive))

\* EventLogger.getLogs
getLogs(lg) == lg.logs

\* EventLogger.getEventStats: the number of entries of each event type
getEventStats(lg) ==
    [t \in {lg.logs[i].type : i \in 1..Len(lg.logs)} |->
        Cardinality({i \in 1..Len(lg.logs) : lg.logs[i].type = t})]

\* EventLogger.getLogsByEventType
getLogsByEventType(lg, eventType) ==
    SelectSeq(lg.logs, LAMBDA e : e.type = eventType)

\* --------------------------------------------------- the event handlers
\* EventManager.createHandlers: a handler with typed subscriptions and one
\* that subscribes itself to every event
Handlers == {"ui", "debug"}

\* BaseEventHandler, lines 9-10: the handler as constructed. starts counts
\* the start() calls that installed subscriptions; restarted, that start()
\* was called on the started handler; restopped, that stop() was called on
\* the stopped handler.
NewHandler ==
    [isActive |-> FALSE, subscriptions |-> <<>>, starts |-> 0,
     restarted |-> FALSE, restopped |-> FALSE]

\* The arrow function the k-th installing start() of the handler h passes to
\* subscribe for an event type: a new function object every time
Closure(h, eventType, k) == h \o "." \o eventType \o "#" \o ToString(k)

\* EventManager.createHandlers: the classes of the handlers it constructs,
\* in order
Classes == <<"ui", "animation", "debug">>

\* The handler of a class that the k-th full initialize() constructs
HandlerObject(class, k) == class \o "@" \o ToString(k)

\* The class of a handler object: the handlers of the application are a
\* UIEventHandler and a DebugEventHandler
ClassOf(h) ==
    IF h \in Handlers THEN h
    ELSE CHOOSE c \in Range(Classes) :
            \E k \in 1..MaxInits : h = HandlerObject(c, k)

\* UIEventHandler.setupSubscriptions: the event types the handler subscribes
\* to, in
\* order, among those of the model; AnimationEventHandler subscribes to
\* WIN_DETECTED first
InstalledTypes(h) ==
    IF ClassOf(h) = "ui" THEN <<"spin", "win">>
    ELSE IF ClassOf(h) = "animation" THEN <<"win", "spin">>
    ELSE <<>>

\* The levels of a DebugEventHandler the model tells apart: 'detailed' and
\* 'verbose' differ from 'basic' in what is printed only
DebugLevels == {"none", "basic"}

\* new DebugEventHandler(eventBus, logLevel): the fields of the base class,
\* logLevel and eventCounts, the Map as a function. due records, for each
\* type, the events emitted since the handler was constructed or
\* clearStats() was called while the handler was started, subscribed and at
\* a level other than 'none'.
NewDebugEventHandler(logLevel) ==
    [isActive |-> FALSE, subscriptions |-> <<>>, starts |-> 0,
     restarted |-> FALSE, restopped |-> FALSE,
     logLevel |-> logLevel, eventCounts |-> <<>>, due |-> <<>>]

\* The handler object h as its class constructs it; createHandlers gives
\* the DebugEventHandler the debugLogLevel of the options, 'basic' unless
\* given
NewHandlerOf(h) ==
    IF ClassOf(h) = "debug" THEN NewDebugEventHandler("basic") ELSE NewHandler

\* EventManager, lines 16-19: the manager as constructed. handlers is the
\* Map in insertion order, eventLogger and debugConsole tell whether the
\* field is set; inits counts the initialize() calls that ran to the end,
\* last is the method of the manager called last, again, that the method
\* called before it was initialize() too, arg, the name and the handler
\* the last addHandler, or the name the last removeHandler, was given, and
\* options, the options of the last initialize() that ran to the end.
NewEventManager ==
    [isInitialized |-> FALSE, handlers |-> <<>>, eventLogger |-> FALSE,
     debugConsole |-> FALSE, inits |-> 0, last |-> "constructor",
     again |-> FALSE, arg |-> [name |-> "", handler |-> ""],
     options |-> [enableAdvancedLogging |-> FALSE,
                  enableDebugConsole |-> FALSE, logLevel |-> NONE]]

\* The clock and the ids when no event record has been created
NewIds(now) == [now |-> now, ticks |-> 0, created |-> <<>>]

\* The program as constructed, with the logger lg, when Date.now() is now
ConstructedAt(lg, now) ==
    /\ listeners = <<>>
    /\ wildcardListeners = <<>>
    /\ eventHistory = <<>>
    /\ emitted = 0
    /\ handles = EmptyBag
    /\ stack = <<>>
    /\ uncaught = FALSE
    /\ cleared = {}
    /\ retired = {}
    /\ handlerState = [h \in Handlers |-> NewHandlerOf(h)]
    /\ logger = lg
    /\ localStorage = <<>>
    /\ manager = NewEventManager
    /\ ids = NewIds(now)

\* The program as constructed, with the logger lg
Constructed(lg) == ConstructedAt(lg, 0)

Init == Constructed(NewEventLogger(INFO))

\* ------------------------------------------------------------ operations
\* subscribe(eventType, listener) by callers that hold up to n handles
Subscribe(eventType, listener, n) ==
    /\ CallerReady
    /\ listeners' = subscribe(listeners, eventType, listener)
    /\ handles' \in Holding(
          NewHandle(eventType, listener, FALSE,
                    getSubscriberCount(listeners', eventType)
                      > getSubscriberCount(listeners, eventType)), n)
    /\ stack' = Charge(MarkSubscribed(stack))
    /\ retired' = retired \ {Registration("type", eventType, listener)}
    /\ cleared' = cleared \ {Registration("type", eventType, listener)}
    /\ UNCHANGED <<wildcardListeners, eventHistory, emitted, uncaught>>
    /\ UNCHANGED <<handlerState, logger, localStorage, manager, ids>>

\* subscribeToAll(listener) by callers that hold up to n handles
SubscribeToAll(listener, n) ==
    /\ CallerReady
    /\ wildcardListeners' = subscribeToAll(wildcardListeners, listener)
    /\ handles' \in Holding(
          NewHandle("*", listener, TRUE,
                    Len(wildcardListeners') > Len(wildcardListeners)), n)
    /\ stack' = Charge(MarkSubscribed(stack))
    /\ retired' = retired \ {Registration("wild", "", listener)}
    /\ cleared' = cleared \ {Registration("wild", "", listener)}
    /\ UNCHANGED <<listeners, eventHistory, emitted, uncaught>>
    /\ UNCHANGED <<handlerState, logger, localStorage, manager, ids>>

\* The running listener ends, by the handle hd, the subscription through
\* which it is being called
OwnHandle(hd) ==
    /\ stack # <<>>
    /\ Top.cur # NoListener
    /\ hd.active
    /\ HandleRegistration(hd) = CalledRegistration(Top)

\* EventSubscription.unsubscribe on the handle hd; the caller keeps the handle
\* afterwards, or lets go of it
Unsubscribe(hd, keep) ==
    /\ CallerReady
    /\ hd \in Held
    /\ handles' = (handles (-) SetToBag({hd}))
                    (+) (IF keep THEN SetToBag({Spent(hd)}) ELSE EmptyBag)
    /\ IF isActive(hd)
       THEN LET after == unsubscribe(listeners, wildcardListeners,
                                     hd.eventType, hd.listener)
            IN  /\ listeners' = after.listeners
                /\ wildcardListeners' = after.wildcardListeners
                /\ stack' = Charge(MarkRemoved(
                               Reseat(stack, listeners, wildcardListeners,
                                      after.listeners, after.wildcardListeners),
                               hd.listener))
                /\ retired' =
                      {r \in (IF OwnHandle(hd)
                              THEN retired \cup {CalledRegistration(Top)}
                              ELSE retired) :
                          InRegistry(after.listeners, after.wildcardListeners, r)}
       ELSE /\ stack' = Charge(stack)
            /\ UNCHANGED <<listeners, wildcardListeners, retired>>
    /\ UNCHANGED <<eventHistory, emitted, uncaught, cleared>>
    /\ UNCHANGED <<handlerState, logger, localStorage, manager, ids>>

\* Every subscription of the registry
AllRegistrations(reg, wild) ==
    UNION {{Registration("type", t, l) : l \in Range(reg[t])} : t \in DOMAIN reg}
      \cup {Registration("wild", "", l) : l \in Range(wild)}

\* The emit calls in progress after clear() took the registry from (reg, wild)
\* to (reg2, wild2): Map.clear leaves the Set objects as they are, so a
\* forEach over the Set of a type goes on over its entries; Set.clear empties
\* the wildcard Set under its forEach.
Detach(stk, reg, wild, reg2, wild2) ==
    [i \in 1..Len(stk) |->
        LET act == [stk[i] EXCEPT
                      !.old = TRUE,
                      !.removed = IF stk[i].subs THEN @
                                  ELSE @ \cup {r.l : r \in AllRegistrations(reg, wild)}]
        IN  IF act.phase = "wild"
            THEN [act EXCEPT !.idx = Passed(wild, wild2, act.idx)]
            ELSE IF act.det \/ act.type \in DOMAIN reg2 THEN act
            ELSE [act EXCEPT !.det = TRUE, !.dset = reg[act.type]]]

\* clear()
Clear ==
    /\ CallerReady
    /\ LET after == clear(listeners, wildcardListeners)
       IN  /\ listeners' = after.listeners
           /\ wildcardListeners' = after.wildcardListeners
           /\ stack' = Charge(Detach(stack, listeners, wildcardListeners,
                                     after.listeners, after.wildcardListeners))
           /\ retired' = {r \in retired :
                             InRegistry(after.listeners,
                                        after.wildcardListeners, r)}
    /\ cleared' = cleared \cup AllRegistrations(listeners, wildcardListeners)
    /\ UNCHANGED <<eventHistory, emitted, handles, uncaught>>
    /\ UNCHANGED <<handlerState, logger, localStorage, manager, ids>>

\* emit(event), up to its first forEach, the event being one of the first
\* `most` of the run: what it does to the dispatcher
EmitEvent(eventType, most) ==
    /\ CallerReady
    /\ Len(stack) < MaxDepth
    /\ emitted < most
    /\ emitted' = emitted + 1
    /\ eventHistory' = addToHistory(eventHistory, Event(eventType, emitted'))
    /\ stack' = Append(Charge(stack), NewActivation(eventType))
    /\ UNCHANGED <<listeners, wildcardListeners, handles, uncaught, cleared,
                   retired>>
    /\ UNCHANGED <<logger, localStorage, manager, ids>>

\* emit(event), up to its first forEach
Emit(eventType, most) ==
    /\ EmitEvent(eventType, most)
    /\ UNCHANGED handlerState

\* The record of a call of callListener, and of its outcome
Recorded(act, listener, canHandle, handled) ==
    IF act.subs THEN act
    ELSE [act EXCEPT !.calls = Append(@, [via |-> act.phase, l |-> listener,
                                          can |-> canHandle,
                                          handled |-> handled])]

Outcome(act, outcome) ==
    IF act.subs \/ outcome # "throw" \/ act.raisedAt # 0 THEN act
    ELSE [act EXCEPT !.raisedAt = Len(act.calls)]

\* A callListener without its try/catch
EscapesUncaught(outcome) == outcome = "throw"

\* callListener, lines 121-133: whether what the listener's code raised
\* leaves callListener
Escapes(outcome) == FALSE

\* A callListener that calls handle whatever canHandle answers
HandlesAnyway(canHandle) == canHandle # "throw"

\* callListener, lines 126-129: whether the listener's callback or handle is
\* called after what canHandle answered
Handles(canHandle) == canHandle = "true"

\* callListener, lines 126-128: what canHandle may answer for a listener
CanHandleResults(listener) ==
    IF listener \in HasCanHandle THEN {"true", "false", "throw"} ELSE {"true"}

\* forEach: the next entry of the Set, and callListener on it up to the call
\* of the listener's code (a handler's canHandle has answered)
CallNext(canHandle) ==
    /\ stack # <<>>
    /\ Top.cur = NoListener
    /\ Top.idx < Len(CurrentSet(Top))
    /\ LET listener == CurrentSet(Top)[Top.idx + 1] IN
       /\ canHandle \in CanHandleResults(listener)
       /\ IF Handles(canHandle)
          THEN /\ stack' = [stack EXCEPT ![Len(stack)] =
                              [Recorded(Top, listener, canHandle, TRUE) EXCEPT
                                  !.idx = @ + 1, !.cur = listener,
                                  !.ops = MaxOps]]
               /\ UNCHANGED uncaught
          ELSE IF canHandle = "throw" /\ Escapes("throw")
          THEN /\ stack' = <<>>
               /\ uncaught' = TRUE
          ELSE /\ stack' = [stack EXCEPT ![Len(stack)] =
                              [Outcome(Recorded(Top, listener, canHandle, FALSE),
                                        canHandle)
                                 EXCEPT !.idx = @ + 1]]
               /\ UNCHANGED uncaught
    /\ UNCHANGED <<listeners, wildcardListeners, eventHistory, emitted, handles,
                   cleared, retired>>
    /\ UNCHANGED <<handlerState, logger, localStorage, manager, ids>>

\* emit, line 112: the forEach over the type's Set is over, the one over the
\* wildcard Set begins
WildcardPhase ==
    /\ stack # <<>>
    /\ Top.cur = NoListener
    /\ Top.idx >= Len(CurrentSet(Top))
    /\ NextPhase(Top.phase) # "done"
    /\ stack' = [stack EXCEPT ![Len(stack)] =
                    [Top EXCEPT !.phase = NextPhase(Top.phase), !.idx = 0,
                                !.snap = Range(PhaseSet(NextPhase(Top.phase),
                                                        Top.type))]]
    /\ UNCHANGED <<listeners, wildcardListeners, eventHistory, emitted, handles,
                   uncaught, cleared, retired>>
    /\ UNCHANGED <<handlerState, logger, localStorage, manager, ids>>

\* emit returns
EmitReturn ==
    /\ stack # <<>>
    /\ Top.cur = NoListener
    /\ Top.idx >= Len(CurrentSet(Top))
    /\ NextPhase(Top.phase) = "done"
    /\ stack' = SubSeq(stack, 1, Len(stack) - 1)
    /\ UNCHANGED <<listeners, wildcardListeners, eventHistory, emitted, handles,
                   uncaught, cleared, retired>>
    /\ UNCHANGED <<handlerState, logger, localStorage, manager, ids>>

\* The listener's code (the callback, or handle) returns or raises
ListenerEnd(outcome) ==
    /\ stack # <<>>
    /\ Top.cur # NoListener
    /\ Top.cur \notin LoggerClosures
    /\ IF Escapes(outcome)
       THEN /\ stack' = <<>>
            /\ uncaught' = TRUE
       ELSE /\ stack' = [stack EXCEPT ![Len(stack)] =
                           [Outcome(Top, outcome) EXCEPT !.cur = NoListener,
                                                          !.ops = 0]]
            /\ UNCHANGED uncaught
    /\ UNCHANGED <<listeners, wildcardListeners, eventHistory, emitted, handles,
                   cleared, retired>>
    /\ UNCHANGED <<handlerState, logger, localStorage, manager, ids>>

\* emit at work
Dispatch ==
    \/ \E r \in {"true", "false", "throw"} : CallNext(r)
    \/ WildcardPhase
    \/ EmitReturn
    \/ \E o \in {"ok", "throw"} : ListenerEnd(o)

\* subscribe, subscribeToAll and unsubscribe, called with event types of T by
\* callers that hold up to n handles
Subscriptions(T, n, keeps) ==
    \/ \E t \in T, l \in Listeners : Subscribe(t, l, n)
    \/ \E l \in Listeners : SubscribeToAll(l, n)
    \/ \E hd \in Held, k \in keeps : Unsubscribe(hd, k)

Outside == stack = <<>>

\* Listeners that only receive: the application subscribes, unsubscribes and
\* emits between emit calls
Passive(T, E, n, keeps) ==
    \/ Outside /\ Subscriptions(T, n, keeps)
    \/ Outside /\ \E t \in E : Emit(t, MaxEmits)
    \/ Dispatch

\* Listeners that subscribe and unsubscribe while they run
Mutating(T, E, n, keeps) ==
    \/ Subscriptions(T, n, keeps)
    \/ Outside /\ \E t \in E : Emit(t, MaxEmits)
    \/ Dispatch

\* Listeners that unsubscribe while they run
Unsubscribing(T, E, n, keeps) ==
    \/ Outside /\ \E t \in T, l \in Listeners : Subscribe(t, l, n)
    \/ Outside /\ \E l \in Listeners : SubscribeToAll(l, n)
    \/ \E hd \in Held, k \in keeps : Unsubscribe(hd, k)
    \/ Outside /\ \E t \in E : Emit(t, MaxEmits)
    \/ Dispatch

\* Listeners that emit while they run (AnimationEventHandler.playWinAnimation)
Nested(T, E, n, keeps) ==
    \/ Outside /\ Subscriptions(T, n, keeps)
    \/ \E t \in E : Emit(t, MaxEmits)
    \/ Dispatch

\* ------------------------------------------- the handlers' operations
\* BaseEventHandler.subscribe for each type of the sequence, in order: the
\* registry and the handles recorded
RECURSIVE subscribeEach(_, _, _, _)
subscribeEach(h, k, types, acc) ==
    IF types = <<>> THEN acc
    ELSE LET listener == Closure(h, Head(types), k)
             reg == subscribe(acc.listeners, Head(types), listener)
         IN  subscribeEach(h, k, Tail(types),
                [acc EXCEPT
                    !.listeners = reg,
                    !.subscriptions =
                        Append(@, NewHandle(Head(types), listener, FALSE,
                                 getSubscriberCount(reg, Head(types))
                                   > getSubscriberCount(acc.listeners,
                                                        Head(types))))])

\* setupSubscriptions of the handler h at its k-th installing start():
\* UIEventHandler subscribes functions to its types, DebugEventHandler (and
\* the base class) subscribes itself to every event
setupSubscriptions(h, k, reg, wild, subs) ==
    IF InstalledTypes(h) # <<>>
    THEN subscribeEach(h, k, InstalledTypes(h),
                       [listeners |-> reg, wildcardListeners |-> wild,
                        subscriptions |-> subs])
    ELSE LET after == subscribeToAll(wild, h)
         IN  [listeners |-> reg, wildcardListeners |-> after,
              subscriptions |->
                  Append(subs, NewHandle("*", h, TRUE,
                                         Len(after) > Len(wild)))]

\* A cleanupSubscriptions that forgets the handles without unsubscribing
cleanupForgets(reg, wild, subs) ==
    [listeners |-> reg, wildcardListeners |-> wild]

\* BaseEventHandler.cleanupSubscriptions: the registry after unsubscribe()
\* on each recorded handle, in order
RECURSIVE cleanupSubscriptions(_, _, _)
cleanupSubscriptions(reg, wild, subs) ==
    IF subs = <<>> THEN [listeners |-> reg, wildcardListeners |-> wild]
    ELSE LET after == IF isActive(Head(subs))
                      THEN unsubscribe(reg, wild, Head(subs).eventType,
                                       Head(subs).listener)
                      ELSE [listeners |-> reg, wildcardListeners |-> wild]
         IN  cleanupSubscriptions(after.listeners, after.wildcardListeners,
                                  Tail(subs))

\* A start() that does not look at isActive
NeverStarted(hs) == FALSE

\* BaseEventHandler.start, line 28
AlreadyStarted(hs) == hs.isActive

\* BaseEventHandler.stop, line 40
AlreadyStopped(hs) == ~hs.isActive

\* BaseEventHandler.start on the handler h
Start(h) ==
    /\ CallerReady
    /\ LET hs == handlerState[h] IN
       IF AlreadyStarted(hs)
       THEN /\ handlerState' = [handlerState EXCEPT ![h].restarted = TRUE]
            /\ stack' = Charge(stack)
            /\ UNCHANGED <<listeners, wildcardListeners, retired, cleared>>
       ELSE /\ hs.starts < MaxStarts
            /\ LET after == setupSubscriptions(h, hs.starts + 1, listeners,
                                               wildcardListeners,
                                               hs.subscriptions)
                   made == {HandleRegistration(after.subscriptions[i]) :
                               i \in Len(hs.subscriptions) + 1
                                       ..Len(after.subscriptions)}
               IN  /\ handlerState' =
                          [handlerState EXCEPT
                              ![h] = [hs EXCEPT
                                        !.isActive = TRUE,
                                        !.subscriptions = after.subscriptions,
                                        !.starts = @ + 1,
                                        !.restarted = hs.isActive,
                                        !.restopped = FALSE]]
                   /\ listeners' = after.listeners
                   /\ wildcardListeners' = after.wildcardListeners
                   /\ stack' = Charge(MarkSubscribed(stack))
                   /\ retired' = retired \ made
                   /\ cleared' = cleared \ made
    /\ UNCHANGED <<eventHistory, emitted, handles, uncaught, logger,
                   localStorage, manager, ids>>

\* BaseEventHandler.stop on the handler h
Stop(h) ==
    /\ CallerReady
    /\ LET hs == handlerState[h] IN
       IF AlreadyStopped(hs)
       THEN /\ handlerState' = [handlerState EXCEPT ![h].restopped = TRUE]
            /\ stack' = Charge(stack)
            /\ UNCHANGED <<listeners, wildcardListeners, retired>>
       ELSE LET after == cleanupSubscriptions(listeners, wildcardListeners,
                                              hs.subscriptions)
                gone == {hs.subscriptions[i].listener :
                            i \in 1..Len(hs.subscriptions)}
            IN  /\ handlerState' =
                       [handlerState EXCEPT
                           ![h] = [hs EXCEPT !.isActive = FALSE,
                                             !.subscriptions = <<>>,
                                             !.restarted = FALSE,
                                             !.restopped = ~hs.isActive]]
                /\ listeners' = after.listeners
                /\ wildcardListeners' = after.wildcardListeners
                /\ stack' = Charge(MarkAllRemoved(
                               Reseat(stack, listeners, wildcardListeners,
                                      after.listeners, after.wildcardListeners),
                               gone))
                /\ retired' = {r \in retired :
                                  InRegistry(after.listeners,
                                             after.wildcardListeners, r)}
    /\ UNCHANGED <<eventHistory, emitted, handles, uncaught, cleared, logger,
                   localStorage, manager, ids>>

\* EventManager.startAllHandlers, stopAllHandlers, addHandler and
\* removeHandler, between emit calls, next to an application that
\* subscribes a handler of its own and emits
NextHandlers ==
    \/ Outside /\ \E h \in Handlers : Start(h)
    \/ Outside /\ \E h \in Handlers : Stop(h)
    \/ Outside /\ \E t \in EmittedTypes, l \in HasCanHandle :
                     Subscribe(t, l, MaxHandlesStar)
    \/ Outside /\ \E l \in HasCanHandle : SubscribeToAll(l, MaxHandlesStar)
    \/ Outside /\ \E hd \in Held : Unsubscribe(hd, FALSE)
    \/ Outside /\ \E t \in EmittedTypes : Emit(t, MaxEmits)
    \/ Dispatch

SpecHandlers == Init /\ [][NextHandlers]_vars

\* --------------------------------------------- the logger's operations
\* EventLogger.log, line 106: log(level, message) makes an entry
Passes(lg, level) == ~(level > lg.config.logLevel)

\* addLogEntry, lines 166-168: how the write of saveToLocalStorage may end
\* in a call that has left the logger as lg2 and has added an entry or not
Writes(lg2, added) ==
    IF added /\ lg2.config.enableLocalStorage THEN {"ok", "fail"}
    ELSE {"none"}

\* The last n entries of a sequence
LastOf(seq, n) ==
    IF Len(seq) <= n THEN seq ELSE SubSeq(seq, Len(seq) - n + 1, Len(seq))

\* EventLogger.saveToLocalStorage: the item of localStorage after the write
saveToLocalStorage(lg2, store, write) ==
    IF write = "ok" THEN LastOf(lg2.logs, recentLogs) ELSE store

\* A saveToLocalStorage without its try/catch
SaveEscapesOnFailure(write) == write = "fail"

\* saveToLocalStorage, lines 202-207: whether what the write raised leaves
\* saveToLocalStorage
SaveEscapes(write) == FALSE

\* The end of a call of the logger that has left it as lg2, localStorage
\* holding store before addLogEntry saves: what has left saveToLocalStorage
\* leaves addLogEntry before outputLog is called, and reaches the caller
\* unless the caller is callListener
LoggerCallEnds(lg2, store, added, inListener, method) ==
    \E write \in Writes(lg2, added) :
        /\ localStorage' = saveToLocalStorage(lg2, store, write)
        /\ logger' = [lg2 EXCEPT
                         !.last = method,
                         !.failed = write = "fail",
                         !.printed = IF SaveEscapes(write)
                                     THEN logger.printed ELSE @]
        /\ uncaught' = (uncaught \/ (SaveEscapes(write) /\ ~inListener))

\* EventLogger.start, the logger being started up to `most` times in the run
LoggerStart(most) ==
    /\ CallerReady
    /\ IF logger.isActive
       THEN /\ stack' = Charge(stack)
            /\ UNCHANGED <<wildcardListeners, logger, retired, cleared,
                           localStorage, uncaught>>
       ELSE /\ logger.made < most
            /\ wildcardListeners' =
                  subscribeToAll(wildcardListeners,
                                 LoggerClosure(logger.made + 1))
            /\ LoggerCallEnds(log([logger EXCEPT !.isActive = TRUE,
                                                 !.made = @ + 1,
                                                 !.since = emitted,
                                                 !.steady = TRUE], INFO),
                              localStorage, Passes(logger, INFO), FALSE,
                              "start")
            /\ stack' = Charge(MarkSubscribed(stack))
            /\ retired' = retired
                  \ {Registration("wild", "", LoggerClosure(logger.made + 1))}
            /\ cleared' = cleared
                  \ {Registration("wild", "", LoggerClosure(logger.made + 1))}
    /\ UNCHANGED <<listeners, eventHistory, emitted, handles, handlerState,
                   manager, ids>>

\* EventLogger.stop
LoggerStop ==
    /\ CallerReady
    /\ IF ~logger.isActive
       THEN UNCHANGED <<logger, localStorage, uncaught>>
       ELSE LoggerCallEnds(log([logger EXCEPT !.isActive = FALSE], INFO),
                           localStorage, Passes(logger, INFO), FALSE, "stop")
    /\ stack' = Charge(stack)
    /\ UNCHANGED <<listeners, wildcardListeners, eventHistory, emitted,
                   handles, cleared, retired, handlerState, manager, ids>>

\* EventLogger.log(level, message) by the application
LoggerLog(level) ==
    /\ CallerReady
    /\ Len(logger.logs) < MaxLogged
    /\ LoggerCallEnds(log(logger, level), localStorage,
                      Passes(logger, level), FALSE, "log")
    /\ stack' = Charge(stack)
    /\ UNCHANGED <<listeners, wildcardListeners, eventHistory, emitted,
                   handles, cleared, retired, handlerState, manager, ids>>

\* EventLogger.updateConfig, line 289: { ...this.config, ...newConfig }
mergeConfig(config, newConfig) ==
    [f \in DOMAIN config |->
        IF f \in DOMAIN newConfig THEN newConfig[f] ELSE config[f]]

\* An updateConfig that also drops the entries the new settings refuse
UpdateConfigRetroactive(field, value) ==
    /\ CallerReady
    /\ Len(logger.logs) < MaxLogged
    /\ LET merged == [logger EXCEPT
                         !.config = mergeConfig(@, field :> value),
                         !.steady = FALSE]
           kept == [merged EXCEPT
                       !.logs = SelectSeq(@, LAMBDA e :
                                   \/ e.type = MessageEvent.type
                                   \/ shouldLogEvent(merged, e, e.level))]
       IN  LoggerCallEnds(log(kept, INFO), localStorage,
                          Passes(kept, INFO), FALSE, "updateConfig")
    /\ stack' = Charge(stack)
    /\ UNCHANGED <<listeners, wildcardListeners, eventHistory, emitted,
                   handles, cleared, retired, handlerState, manager, ids>>

\* EventLogger.updateConfig(newConfig), newConfig giving the one field
UpdateConfig(field, value) ==
    /\ CallerReady
    /\ Len(logger.logs) < MaxLogged
    /\ LET merged == [logger EXCEPT
                         !.config = mergeConfig(@, field :> value),
                         !.steady = FALSE]
       IN  LoggerCallEnds(log(merged, INFO), localStorage,
                          Passes(merged, INFO), FALSE, "updateConfig")
    /\ stack' = Charge(stack)
    /\ UNCHANGED <<listeners, wildcardListeners, eventHistory, emitted,
                   handles, cleared, retired, handlerState, manager, ids>>

\* EventLogger.clearLogs
ClearLogs ==
    /\ CallerReady
    /\ LET emptied == [logger EXCEPT !.logs = <<>>]
       IN  LoggerCallEnds(log(emptied, INFO),
                          IF logger.config.enableLocalStorage THEN <<>>
                          ELSE localStorage,
                          Passes(emptied, INFO), FALSE, "clearLogs")
    /\ stack' = Charge(stack)
    /\ UNCHANGED <<listeners, wildcardListeners, eventHistory, emitted,
                   handles, cleared, retired, handlerState, manager, ids>>

\* EventLogger.loadFromLocalStorage
LoadFromLocalStorage ==
    /\ CallerReady
    /\ Len(logger.logs) < MaxLogged
    /\ logger' = [logger EXCEPT !.logs = localStorage \o @,
                                !.last = "loadFromLocalStorage",
                                !.failed = FALSE]
    /\ stack' = Charge(stack)
    /\ UNCHANGED <<listeners, wildcardListeners, eventHistory, emitted,
                   handles, uncaught, cleared, retired, handlerState,
                   localStorage, manager, ids>>

\* The function start() subscribed is called with the event, and returns
LoggerCaptures ==
    /\ stack # <<>>
    /\ Top.cur \in LoggerClosures
    /\ LoggerCallEnds(logEvent(logger, Event(Top.type, Top.n), DEBUG),
                      localStorage,
                      shouldLogEvent(logger, Event(Top.type, Top.n), DEBUG),
                      TRUE, "logEvent")
    /\ stack' = [stack EXCEPT ![Len(stack)] =
                    [Top EXCEPT !.cur = NoListener, !.ops = 0]]
    /\ UNCHANGED <<listeners, wildcardListeners, eventHistory, emitted,
                   handles, cleared, retired, handlerState, manager, ids>>

\* emit at work with no listener but the logger's: no type has a Set, and
\* the forEach over the wildcard Set is the only one
LoggerDispatch ==
    \/ \E r \in {"true"} : CallNext(r)
    \/ EmitReturn
    \/ LoggerCaptures

\* EventManager.initializeEventLogger and destroy, between the emit calls of
\* an application that has a handler of its own and that sets the logger's
\* level
NextLogger ==
    \/ Outside /\ LoggerStart(MaxStarts)
    \/ Outside /\ LoggerStop
    \/ Outside /\ \E level \in LevelInputs : UpdateConfig("logLevel", level)
    \/ Outside /\ \E t \in LoggedTypes, l \in HasCanHandle :
                     Subscribe(t, l, MaxHandlesStar)
    \/ Outside /\ \E hd \in Held : Unsubscribe(hd, FALSE)
    \/ Outside /\ \E t \in LoggedTypes : Emit(t, MaxLoggedEmits)
    \/ Dispatch
    \/ LoggerCaptures

SpecLogger == Init /\ [][NextLogger]_vars

\* The logger started and stopped, its level set and log() called by the
\* debug console, between the emit calls of an application
NextLevels ==
    \/ Outside /\ LoggerStart(MaxLevelStarts)
    \/ Outside /\ LoggerStop
    \/ Outside /\ \E level \in LevelInputs : LoggerLog(level)
    \/ Outside /\ \E level \in LevelInputs : UpdateConfig("logLevel", level)
    \/ Outside /\ \E t \in LoggedTypes : Emit(t, MaxEmits)
    \/ LoggerDispatch

SpecLevels == Init /\ [][NextLevels]_vars

\* new EventLogger(eventBus, {logLevel, filterEventTypes, excludeEventTypes})
FilterConfigs ==
    {[LevelConfig(level) EXCEPT !.filterEventTypes = include,
                                !.excludeEventTypes = exclude] :
        level \in {INFO, DEBUG}, include \in IncludeInputs,
        exclude \in ExcludeInputs}

InitFilters == \E config \in FilterConfigs : Constructed(EventLoggerOf(config))

\* A logger with filters, started and stopped between the emit calls of an
\* application
NextFilters ==
    \/ Outside /\ LoggerStart(MaxLevelStarts)
    \/ Outside /\ LoggerStop
    \/ Outside /\ \E t \in FilteredTypes : Emit(t, MaxEmits)
    \/ LoggerDispatch

SpecFilters == InitFilters /\ [][NextFilters]_vars

\* A logger, started and not stopped, whose level and filters the debug
\* console sets between the emit calls of an application
NextConfig ==
    \/ Outside /\ LoggerStart(MaxLevelStarts)
    \/ Outside /\ \E level \in LevelInputs : UpdateConfig("logLevel", level)
    \/ Outside /\ \E include \in IncludeInputs :
                     UpdateConfig("filterEventTypes", include)
    \/ Outside /\ \E exclude \in ExcludeInputs :
                     UpdateConfig("excludeEventTypes", exclude)
    \/ Outside /\ \E t \in ConfiguredTypes : Emit(t, MaxEmits)
    \/ LoggerDispatch

SpecConfig == Init /\ [][NextConfig]_vars

\* new EventLogger(eventBus, {logLevel: DEBUG, enableLocalStorage: true})
InitPersisting ==
    Constructed(EventLoggerOf([LevelConfig(DEBUG) EXCEPT
                                  !.enableLocalStorage = TRUE]))

\* A logger that saves its entries, started next to an application that
\* subscribes a handler of its own, calls log() and emits
NextPersisting ==
    \/ Outside /\ LoggerStart(MaxLevelStarts)
    \/ Outside /\ \E level \in LevelInputs : LoggerLog(level)
    \/ Outside /\ \E t \in LoggedTypes, l \in HasCanHandle :
                     Subscribe(t, l, MaxHandlesStar)
    \/ Outside /\ \E l \in HasCanHandle : SubscribeToAll(l, MaxHandlesStar)
    \/ Outside /\ \E t \in LoggedTypes : Emit(t, MaxEmits)
    \/ Dispatch
    \/ LoggerCaptures

SpecPersisting == InitPersisting /\ [][NextPersisting]_vars

\* new EventLogger(eventBus, {logLevel: DEBUG, enableLocalStorage: true,
\* maxLogEntries})
BufferConfigs ==
    {[LevelConfig(DEBUG) EXCEPT !.maxLogEntries = capacity,
                                !.enableLocalStorage = TRUE] :
        capacity \in CapacityInputs}

InitBuffer == \E config \in BufferConfigs : Constructed(EventLoggerOf(config))

\* A logger with a small buffer that saves it to localStorage, started,
\* stopped and called by the debug console between the emit calls of an
\* application
NextBuffer ==
    \/ Outside /\ LoggerStart(MaxLevelStarts)
    \/ Outside /\ LoggerStop
    \/ Outside /\ \E level \in LevelInputs : LoggerLog(level)
    \/ Outside /\ \E capacity \in CapacityInputs :
                     UpdateConfig("maxLogEntries", capacity)
    \/ Outside /\ ClearLogs
    \/ Outside /\ LoadFromLocalStorage
    \/ Outside /\ \E t \in LoggedTypes : Emit(t, MaxEmits)
    \/ LoggerDispatch

SpecBuffer == InitBuffer /\ [][NextBuffer]_vars

\* new EventLogger(eventBus, {logLevel: LogLevel.NONE})
InitNone == Constructed(NewEventLogger(NONE))

\* A logger constructed with the level NONE, started, stopped and called by
\* the debug console, which sets the level NONE again, between the emit
\* calls of an application
NextNone ==
    \/ Outside /\ LoggerStart(MaxStarts)
    \/ Outside /\ LoggerStop
    \/ Outside /\ \E level \in LevelInputs : LoggerLog(level)
    \/ Outside /\ UpdateConfig("logLevel", NONE)
    \/ Outside /\ \E t \in LoggedTypes : Emit(t, MaxEmits)
    \/ LoggerDispatch

SpecNone == InitNone /\ [][NextNone]_vars

\* new EventLogger(eventBus, {logLevel: LogLevel.DEBUG})
InitOrder == Constructed(NewEventLogger(DEBUG))

\* A logger at the level DEBUG, started next to an application whose
\* listeners emit while they run (AnimationEventHandler.playWinAnimation);
\* the function the logger subscribed emits nothing
NextOrder ==
    \/ Outside /\ LoggerStart(MaxLevelStarts)
    \/ Outside /\ \E t \in EmittedTypes, l \in Listeners :
                     Subscribe(t, l, MaxHandlesStar)
    \/ /\ IF Outside THEN TRUE ELSE Top.cur \notin LoggerClosures
       /\ \E t \in EmittedTypes : Emit(t, MaxEmits)
    \/ Dispatch
    \/ LoggerCaptures

SpecOrder == InitOrder /\ [][NextOrder]_vars

\* ------------------------------------------- the manager's operations
\* BaseEventHandler.start on the handler h, in the program w (the registry
\* and the handlers)
startHandler(w, h) ==
    LET hs == w.handlerState[h] IN
    IF AlreadyStarted(hs)
    THEN [w EXCEPT !.handlerState[h].restarted = TRUE]
    ELSE LET after == setupSubscriptions(h, hs.starts + 1, w.listeners,
                                         w.wildcardListeners,
                                         hs.subscriptions)
         IN  [listeners |-> after.listeners,
              wildcardListeners |-> after.wildcardListeners,
              handlerState |->
                  [w.handlerState EXCEPT
                      ![h] = [hs EXCEPT !.isActive = TRUE,
                                        !.subscriptions = after.subscriptions,
                                        !.starts = @ + 1,
                                        !.restarted = FALSE,
                                        !.restopped = FALSE]]]

\* BaseEventHandler.stop on the handler h
stopHandler(w, h) ==
    LET hs == w.handlerState[h] IN
    IF AlreadyStopped(hs)
    THEN [w EXCEPT !.handlerState[h].restopped = TRUE]
    ELSE LET after == cleanupSubscriptions(w.listeners, w.wildcardListeners,
                                           hs.subscriptions)
         IN  [listeners |-> after.listeners,
              wildcardListeners |-> after.wildcardListeners,
              handlerState |->
                  [w.handlerState EXCEPT
                      ![h] = [hs EXCEPT !.isActive = FALSE,
                                        !.subscriptions = <<>>,
                                        !.restarted = FALSE,
                                        !.restopped = FALSE]]]

\* EventManager.startAllHandlers: start() on each handler of the Map
RECURSIVE startAllHandlers(_, _)
startAllHandlers(w, entries) ==
    IF entries = <<>> THEN w
    ELSE startAllHandlers(startHandler(w, Head(entries).handler),
                          Tail(entries))

\* A stopAllHandlers that stops none
stopNoHandlers(w, entries) == w

\* EventManager.stopAllHandlers: stop() on each handler of the Map
RECURSIVE stopAllHandlers(_, _)
stopAllHandlers(w, entries) ==
    IF entries = <<>> THEN w
    ELSE stopAllHandlers(stopHandler(w, Head(entries).handler),
                         Tail(entries))

\* this.handlers.has(name)
handlersHas(entries, name) ==
    \E i \in 1..Len(entries) : entries[i].name = name

\* EventManager.getHandler: the handler under the name; the Map has it
getHandler(entries, name) ==
    entries[CHOOSE i \in 1..Len(entries) : entries[i].name = name].handler

\* this.handlers.set(name, handler): a name the Map has keeps its place
handlersSet(entries, name, handler) ==
    IF handlersHas(entries, name)
    THEN [i \in 1..Len(entries) |->
            IF entries[i].name = name
            THEN [name |-> name, handler |-> handler] ELSE entries[i]]
    ELSE Append(entries, [name |-> name, handler |-> handler])

\* A removeHandler that leaves the Map as it is
handlersKeep(entries, name) == entries

\* this.handlers.delete(name)
handlersDelete(entries, name) == SelectSeq(entries, LAMBDA e : e.name # name)

\* EventManager.createHandlers at the k-th full initialize(): the Map
RECURSIVE createHandlers(_, _, _)
createHandlers(entries, classes, k) ==
    IF classes = <<>> THEN entries
    ELSE createHandlers(handlersSet(entries, Head(classes),
                                    HandlerObject(Head(classes), k)),
                        Tail(classes), k)

\* An initialize() that does not look at isInitialized
NeverInitialized(m) == FALSE

\* EventManager.initialize, line 35
AlreadyInitialized(m) == m.isInitialized

\* EventManager.isReady
isReady(m) == m.isInitialized

\* A destroy() that leaves isInitialized as it is
keepGuard(m) == m

\* EventManager.destroy, line 277
resetGuard(m) == [m EXCEPT !.isInitialized = FALSE]

\* An addHandler that leaves the handler it replaces as it is
keepReplaced(w, entries, name) == w

\* EventManager.addHandler, lines 184-187
stopReplaced(w, entries, name) ==
    IF handlersHas(entries, name)
    THEN stopHandler(w, getHandler(entries, name))
    ELSE w

\* The options of initialize(): enableAdvancedLogging, enableDebugConsole
\* and logLevel
OptionInputs ==
    [enableAdvancedLogging : BOOLEAN, enableDebugConsole : BOOLEAN,
     logLevel : {INFO, DEBUG}]

\* EventManager.initializeEventLogger: the configuration it gives
ManagedConfig(logLevel) ==
    [maxLogEntries |-> managedMaxLogEntries, logLevel |-> logLevel,
     enableLocalStorage |-> TRUE,
     filterEventTypes |-> {}, excludeEventTypes |-> {}]

\* The program: the registry and the handlers
World == [listeners |-> listeners, wildcardListeners |-> wildcardListeners,
          handlerState |-> handlerState]

\* The handlers of the Map that start() would give subscriptions can be
\* started in this run
CanStart(w, entries) ==
    \A i \in 1..Len(entries) :
        \/ w.handlerState[entries[i].handler].isActive
        \/ w.handlerState[entries[i].handler].starts < MaxStarts

\* EventManager.initialize(scene, options)
Initialize(options) ==
    /\ CallerReady
    /\ IF AlreadyInitialized(manager)
       THEN /\ manager' = [manager EXCEPT
                              !.last = "initialize",
                              !.again = manager.last = "initialize"]
            /\ UNCHANGED <<listeners, wildcardListeners, handlerState, logger,
                           localStorage, retired, cleared>>
       ELSE LET k == manager.inits + 1
                constructed ==
                    [EventLoggerOf(ManagedConfig(options.logLevel)) EXCEPT
                        !.made = logger.made + 1,
                        !.isActive = TRUE,
                        !.since = emitted]
                started == log(constructed, INFO)
                entries == createHandlers(manager.handlers, Classes, k)
                objects == [h \in {HandlerObject(Classes[i], k) :
                                      i \in 1..Len(Classes)} |->
                               NewHandlerOf(h)]
                w == [listeners |-> listeners,
                      wildcardListeners |->
                          IF options.enableAdvancedLogging
                          THEN subscribeToAll(wildcardListeners,
                                              LoggerClosure(logger.made + 1))
                          ELSE wildcardListeners,
                      handlerState |-> objects @@ handlerState]
                after == startAllHandlers(w, entries)
                made == AllRegistrations(after.listeners,
                                         after.wildcardListeners)
            IN  /\ manager.inits < MaxInits
                /\ CanStart(w, entries)
                /\ IF options.enableAdvancedLogging
                   THEN \E write \in Writes(started,
                                           Passes(constructed, INFO)) :
                           /\ logger' = [started EXCEPT
                                            !.last = "start",
                                            !.failed = write = "fail"]
                           /\ localStorage' =
                                 saveToLocalStorage(started, localStorage,
                                                    write)
                   ELSE UNCHANGED <<logger, localStorage>>
                /\ listeners' = after.listeners
                /\ wildcardListeners' = after.wildcardListeners
                /\ handlerState' = after.handlerState
                /\ manager' =
                      [manager EXCEPT
                          !.isInitialized = TRUE,
                          !.handlers = entries,
                          !.eventLogger =
                              @ \/ options.enableAdvancedLogging,
                          !.debugConsole =
                              \/ @
                              \/ /\ options.enableDebugConsole
                                 /\ \/ manager.eventLogger
                                    \/ options.enableAdvancedLogging,
                          !.inits = k,
                          !.last = "initialize",
                          !.again = manager.last = "initialize",
                          !.options = options]
                /\ retired' = retired \ made
                /\ cleared' = cleared \ made
    /\ stack' = Charge(stack)
    /\ UNCHANGED <<eventHistory, emitted, handles, uncaught, ids>>

\* EventManager.destroy
Destroy ==
    /\ CallerReady
    /\ LET stopped == stopAllHandlers(World, manager.handlers)
           after == clear(stopped.listeners, stopped.wildcardListeners)
           halted == log([logger EXCEPT !.isActive = FALSE], INFO)
       IN  /\ IF manager.eventLogger /\ logger.isActive
              THEN \E write \in Writes(halted, Passes(logger, INFO)) :
                      /\ logger' = [halted EXCEPT
                                       !.last = "stop",
                                       !.failed = write = "fail"]
                      /\ localStorage' =
                            saveToLocalStorage(halted, localStorage, write)
              ELSE UNCHANGED <<logger, localStorage>>
           /\ listeners' = after.listeners
           /\ wildcardListeners' = after.wildcardListeners
           /\ handlerState' = stopped.handlerState
           /\ manager' = [resetGuard(manager) EXCEPT !.handlers = <<>>,
                                                     !.last = "destroy",
                                                     !.again = FALSE]
           /\ stack' = Charge(Detach(stack, stopped.listeners,
                                     stopped.wildcardListeners,
                                     after.listeners,
                                     after.wildcardListeners))
           /\ retired' = {r \in retired :
                             InRegistry(after.listeners,
                                        after.wildcardListeners, r)}
           /\ cleared' = cleared
                 \cup AllRegistrations(stopped.listeners,
                                       stopped.wildcardListeners)
    /\ UNCHANGED <<eventHistory, emitted, handles, uncaught, ids>>

\* EventManager.addHandler(name, handler)
AddHandler(name, handler) ==
    /\ CallerReady
    /\ LET replaced == stopReplaced(World, manager.handlers, name)
           after == IF manager.isInitialized
                    THEN startHandler(replaced, handler)
                    ELSE replaced
           made == AllRegistrations(after.listeners, after.wildcardListeners)
       IN  /\ \/ ~manager.isInitialized
              \/ replaced.handlerState[handler].isActive
              \/ replaced.handlerState[handler].starts < MaxStarts
           /\ listeners' = after.listeners
           /\ wildcardListeners' = after.wildcardListeners
           /\ handlerState' = after.handlerState
           /\ manager' = [manager EXCEPT
                             !.handlers = handlersSet(@, name, handler),
                             !.last = "addHandler",
                             !.again = FALSE,
                             !.arg = [name |-> name, handler |-> handler]]
           /\ retired' = {r \in retired :
                             InRegistry(after.listeners,
                                        after.wildcardListeners, r)} \ made
           /\ cleared' = cleared \ made
    /\ stack' = Charge(stack)
    /\ UNCHANGED <<eventHistory, emitted, handles, uncaught, logger,
                   localStorage, ids>>

\* EventManager.removeHandler(name)
RemoveHandler(name) ==
    /\ CallerReady
    /\ IF handlersHas(manager.handlers, name)
       THEN LET after == stopHandler(World,
                                     getHandler(manager.handlers, name))
            IN  /\ listeners' = after.listeners
                /\ wildcardListeners' = after.wildcardListeners
                /\ handlerState' = after.handlerState
                /\ retired' = {r \in retired :
                                  InRegistry(after.listeners,
                                             after.wildcardListeners, r)}
                /\ manager' = [manager EXCEPT
                                  !.handlers = handlersDelete(@, name),
                                  !.last = "removeHandler",
                                  !.again = FALSE,
                                  !.arg = [name |-> name, handler |-> ""]]
       ELSE /\ manager' = [manager EXCEPT
                              !.last = "removeHandler",
                              !.again = FALSE,
                              !.arg = [name |-> name, handler |-> ""]]
            /\ UNCHANGED <<listeners, wildcardListeners, handlerState,
                           retired>>
    /\ stack' = Charge(stack)
    /\ UNCHANGED <<eventHistory, emitted, handles, uncaught, cleared, logger,
                   localStorage, ids>>

\* The manager of an application that initializes and destroys it and
\* emits events
NextManager ==
    \/ Outside /\ \E options \in OptionInputs : Initialize(options)
    \/ Outside /\ Destroy
    \/ Outside /\ \E t \in EmittedTypes : Emit(t, MaxEmits)
    \/ Dispatch
    \/ LoggerCaptures

SpecManager == Init /\ [][NextManager]_vars

\* initialize, lines 40-46: the options of initialize(scene)
DefaultOptions ==
    [enableAdvancedLogging |-> TRUE, enableDebugConsole |-> TRUE,
     logLevel |-> INFO]

\* The name the application gives to addHandler and removeHandler
HandlerNames == {"ui"}

\* The manager of an application that adds handlers of its own under the
\* name of a default handler, and removes them, before and after it
\* initializes the manager
NextRegistry ==
    \/ Outside /\ Initialize(DefaultOptions)
    \/ Outside /\ \E name \in HandlerNames, h \in Handlers :
                     AddHandler(name, h)
    \/ Outside /\ \E name \in HandlerNames : RemoveHandler(name)
    \/ Outside /\ \E t \in EmittedTypes : Emit(t, MaxEmits)
    \/ Dispatch
    \/ LoggerCaptures

SpecRegistry == Init /\ [][NextRegistry]_vars

\* ------------------------------------------------ the event statistics
\* The DebugEventHandler objects
DebugHandlers == {h \in DOMAIN handlerState : ClassOf(h) = "debug"}

\* this.eventCounts.get(type) || 0, plus one
Counted(counts, eventType) ==
    MapSet(counts, eventType,
           (IF eventType \in DOMAIN counts THEN counts[eventType] ELSE 0) + 1)

\* A handle that counts the event whatever the level
handleAtAnyLevel(hs, event) ==
    [hs EXCEPT !.eventCounts = Counted(hs.eventCounts, event.type)]

\* DebugEventHandler.handle: the handler after handle(event)
handle(hs, event) ==
    IF hs.logLevel = "none" THEN hs
    ELSE [hs EXCEPT !.eventCounts = Counted(hs.eventCounts, event.type)]

\* DebugEventHandler.getEventStats: a copy of the Map as an object
getEventStatsOfHandler(hs) == hs.eventCounts

\* EventManager.getEventStats
getEventStatsOfManager ==
    IF handlersHas(manager.handlers, "debug")
    THEN getEventStatsOfHandler(
             handlerState[getHandler(manager.handlers, "debug")])
    ELSE "null"

\* The handler is started, at a level other than 'none', and the dispatcher
\* has its subscription
Counting(h) ==
    /\ handlerState[h].isActive
    /\ handlerState[h].logLevel # "none"
    /\ h \in Range(wildcardListeners)

\* emit(event), up to its first forEach, by the application or by a listener
\* of the event's type; each DebugEventHandler that is to count the event
\* has it recorded in due
EmitForStats(eventType, most) ==
    /\ EmitEvent(eventType, most)
    /\ handlerState' =
          [h \in DOMAIN handlerState |->
              IF h \in DebugHandlers /\ Counting(h)
              THEN [handlerState[h] EXCEPT
                       !.due = Counted(handlerState[h].due, eventType)]
              ELSE handlerState[h]]

\* callListener on a DebugEventHandler: canHandle has answered true, handle
\* runs and returns
DebugHandles ==
    /\ stack # <<>>
    /\ Top.cur \in DebugHandlers
    /\ handlerState' =
          [handlerState EXCEPT
              ![Top.cur] = handle(@, Event(Top.type, Top.n))]
    /\ stack' = [stack EXCEPT ![Len(stack)] =
                    [Top EXCEPT !.cur = NoListener, !.ops = 0]]
    /\ UNCHANGED <<listeners, wildcardListeners, eventHistory, emitted,
                   handles, uncaught, cleared, retired, logger, localStorage,
                   manager, ids>>

\* EventManager.setDebugLogLevel(level)
SetDebugLogLevel(level) ==
    /\ CallerReady
    /\ IF handlersHas(manager.handlers, "debug")
       THEN handlerState' =
               [handlerState EXCEPT
                   ![getHandler(manager.handlers, "debug")].logLevel = level]
       ELSE UNCHANGED handlerState
    /\ manager' = [manager EXCEPT !.last = "setDebugLogLevel",
                                  !.again = FALSE]
    /\ stack' = Charge(stack)
    /\ UNCHANGED <<listeners, wildcardListeners, eventHistory, emitted,
                   handles, uncaught, cleared, retired, logger, localStorage,
                   ids>>

\* DebugEventHandler.clearStats on getDebugHandler()
ClearStats ==
    /\ CallerReady
    /\ handlersHas(manager.handlers, "debug")
    /\ handlerState' =
          [handlerState EXCEPT
              ![getHandler(manager.handlers, "debug")] =
                  [@ EXCEPT !.eventCounts = <<>>, !.due = <<>>]]
    /\ stack' = Charge(stack)
    /\ UNCHANGED <<listeners, wildcardListeners, eventHistory, emitted,
                   handles, uncaught, cleared, retired, logger, localStorage,
                   manager, ids>>

\* The options of an initialize() without the logger
StatsOptions ==
    [enableAdvancedLogging |-> FALSE, enableDebugConsole |-> FALSE,
     logLevel |-> INFO]

\* the event types emitted next to the statistics handler
StatsTypes == {"win", "spin"}

\* emit at work: the listeners of the default handlers return, the
\* DebugEventHandler counts
StatsDispatch ==
    \/ CallNext("true")
    \/ WildcardPhase
    \/ EmitReturn
    \/ /\ IF Outside THEN FALSE ELSE Top.cur \notin DebugHandlers
       /\ ListenerEnd("ok")
    \/ DebugHandles

\* The functions the AnimationEventHandler objects have subscribed to
\* WIN_DETECTED, which call playWinAnimation
WinCallbacks ==
    {Closure(h, "win", handlerState[h].starts) :
        h \in {x \in DOMAIN handlerState : ClassOf(x) = "animation"}}

\* The manager of an application that initializes it, stops and starts its
\* DebugEventHandler, sets its level, clears its statistics and removes it
\* between emit calls, and emits; the function the AnimationEventHandler
\* subscribed to WIN_DETECTED emits while it runs (playWinAnimation)
NextStats ==
    \/ Outside /\ Initialize(StatsOptions)
    \/ /\ Outside
       /\ handlersHas(manager.handlers, "debug")
       /\ Stop(getHandler(manager.handlers, "debug"))
    \/ /\ Outside
       /\ handlersHas(manager.handlers, "debug")
       /\ Start(getHandler(manager.handlers, "debug"))
    \/ Outside /\ \E level \in DebugLevels : SetDebugLogLevel(level)
    \/ Outside /\ ClearStats
    \/ Outside /\ RemoveHandler("debug")
    \/ /\ IF Outside THEN TRUE ELSE Top.cur \in WinCallbacks
       /\ \E t \in StatsTypes : EmitForStats(t, MaxLoggedEmits)
    \/ StatsDispatch

SpecStats == Init /\ [][NextStats]_vars

\* -------------------------------------------------- the event records
\* The digits of n in base 32, most significant first, in len characters
\* (the characters of Crockford's alphabet are in the order of their values)
RECURSIVE encode(_, _)
encode(n, len) ==
    IF len = 0 THEN <<>>
    ELSE Append(encode(n \div base32, len - 1), n % base32)

\* ulid() called when Date.now() is now and the random source gives random:
\* the timestamp in 10 characters, then 16 random characters
ulid(now, random) ==
    encode(now, timeLength) \o encode(random, ulidLength - timeLength)

\* EventUtils.compareUlids: a.localeCompare(b) for two ids
compareUlids(a, b) ==
    LET differ == {i \in 1..Len(a) : a[i] # b[i]} IN
    IF differ = {} THEN 0
    ELSE LET i == CHOOSE j \in differ : \A k \in differ : j <= k
         IN  IF a[i] < b[i] THEN -1 ELSE 1

\* Date.now() at the start of a run
ClockInputs == {0, 31}

\* What the random source of ulid() gives
RandomInputs == 0..MaxRandom

\* new BaseEvent(type, data, source), or EventUtils.createEvent: the record
\* gets the id ulid()
CreateEvent(random) ==
    /\ Len(ids.created) < MaxCreated
    /\ ids' = [ids EXCEPT !.created = Append(@, ulid(ids.now, random))]
    /\ UNCHANGED <<listeners, wildcardListeners, eventHistory, emitted,
                   handles, stack, uncaught, cleared, retired, handlerState,
                   logger, localStorage, manager>>

\* A millisecond passes
Tick ==
    /\ ids.ticks < MaxTicks
    /\ ids' = [ids EXCEPT !.now = @ + 1, !.ticks = @ + 1]
    /\ UNCHANGED <<listeners, wildcardListeners, eventHistory, emitted,
                   handles, stack, uncaught, cleared, retired, handlerState,
                   logger, localStorage, manager>>

InitIds == \E now \in ClockInputs : ConstructedAt(NewEventLogger(INFO), now)

\* Event records created as time passes
NextIds ==
    \/ \E random \in RandomInputs : CreateEvent(random)
    \/ Tick

SpecIds == InitIds /\ [][NextIds]_vars

Next == Passive(SubscribedTypes, EmittedTypes, MaxHandles, {FALSE})

Spec == Init /\ [][Next]_vars

\* The same, with callers that keep the handles they have unsubscribed and
\* call unsubscribe() on them again
NextKeeping == Passive(EmittedTypes, EmittedTypes, MaxHandles, BOOLEAN)

SpecKeeping == Init /\ [][NextKeeping]_vars

NextUnsubscribing ==
    Unsubscribing(EmittedTypes, EmittedTypes, MaxHandles, {FALSE})

SpecUnsubscribing == Init /\ [][NextUnsubscribing]_vars

NextNested == Nested(EmittedTypes, EmittedTypes, MaxHandles, {FALSE})

SpecNested == Init /\ [][NextNested]_vars

NextMutating == Mutating(EmittedTypes, EmittedTypes, MaxHandlesMutating, {FALSE})

\* A call of emit, once made, runs on: the engine executes the code of emit
\* and of the listener it is calling to completion.
SpecMutating == Init /\ [][NextMutating]_vars /\ WF_vars(NextMutating)

\* An application that emits, without listeners, more events than the
\* history holds
NextHistory ==
    \/ Outside /\ \E t \in EmittedTypes : Emit(t, MaxHistoryEmits)
    \/ EmitReturn

SpecHistory == Init /\ [][NextHistory]_vars

\* An application and listeners that call clear()
NextClearing ==
    \/ Outside /\ Subscriptions(EmittedTypes, MaxHandlesMutating, {FALSE})
    \/ Clear
    \/ Outside /\ \E t \in EmittedTypes : Emit(t, MaxEmits)
    \/ Dispatch

SpecClearing == Init /\ [][NextClearing]_vars

NextStar == Mutating(StarTypes, StarTypes, MaxHandlesStar, {FALSE})

SpecStar == Init /\ [][NextStar]_vars

\* ------------------------------------------------------------ properties
\* The listeners emit has called, in order, for one of its two forEach
CalledVia(act, via) ==
    LET made == SelectSeq(act.calls, LAMBDA c : c.via = via)
    IN  [j \in 1..Len(made) |-> made[j].l]

\* Every call emit has made: the forEach and the listener
CallOrder(act) ==
    [j \in 1..Len(act.calls) |-> <<act.calls[j].via, act.calls[j].l>>]

\* The calls emit makes for the registry as it is
SubscriptionOrder(eventType) ==
    LET typed == PhaseSet("type", eventType)
    IN  [j \in 1..Len(typed) |-> <<"type", typed[j]>>]
          \o [j \in 1..Len(wildcardListeners) |-> <<"wild", wildcardListeners[j]>>]

IsPrefix(s, t) == Len(s) <= Len(t) /\ s = SubSeq(t, 1, Len(s))

\* emit has made its last call and is about to return
Delivered(act) ==
    /\ act.cur = NoListener
    /\ act.phase = "wild"
    /\ act.idx >= Len(wildcardListeners)

\* No listener has subscribed or unsubscribed since emit was called
Untouched(act) == ~act.subs /\ act.removed = {}

Times(s, x) == Cardinality({j \in 1..Len(s) : s[j] = x})

\* C1: one emit calls the listeners of the event's type in the order of their
\* subscription and then the wildcard listeners in the order of theirs, each
\* once
C1_DeliveryOrder ==
    \A i \in 1..Len(stack) :
        Untouched(stack[i]) =>
            /\ IsPrefix(CallOrder(stack[i]), SubscriptionOrder(stack[i].type))
            /\ Delivered(stack[i]) =>
                  CallOrder(stack[i]) = SubscriptionOrder(stack[i].type)

\* C1: A then B subscribed to "win", C to the wildcard, and one "win" event
\* has called A, B and C
C1_Witness ==
    /\ stack # <<>>
    /\ Delivered(Top)
    /\ CallOrder(Top) = <<<<"type", "A">>, <<"type", "B">>, <<"wild", "C">>>>

\* The listeners that hold an active subscription to a type, and to the
\* wildcard
Subscribers(eventType) ==
    {hd.listener : hd \in {x \in Held : /\ isActive(x)
                                        /\ ~x.viaAll
                                        /\ x.eventType = eventType}}

WildcardSubscribers ==
    {hd.listener : hd \in {x \in Held : isActive(x) /\ x.viaAll}}

\* C2: emit delivers the event once to every listener with an active
\* subscription to its type, once to every listener with an active wildcard
\* subscription, and to no other
C2_ExactDelivery ==
    \A i \in 1..Len(stack) :
        (Untouched(stack[i]) /\ Delivered(stack[i])) =>
            \A l \in Listeners :
                /\ Times(CalledVia(stack[i], "type"), l)
                     = IF l \in Subscribers(stack[i].type) THEN 1 ELSE 0
                /\ Times(CalledVia(stack[i], "wild"), l)
                     = IF l \in WildcardSubscribers THEN 1 ELSE 0

\* C3: what a listener raises (in its callback, handle or canHandle) never
\* leaves emit, and emit still calls every listener of the type and every
\* wildcard listener
C3_FaultIsolation ==
    /\ ~uncaught
    /\ \A i \in 1..Len(stack) :
          (Untouched(stack[i]) /\ Delivered(stack[i]) /\ stack[i].raisedAt > 0)
             => /\ \A l \in Range(PhaseSet("type", stack[i].type)) :
                      Times(CalledVia(stack[i], "type"), l) = 1
                /\ \A l \in Range(wildcardListeners) :
                      Times(CalledVia(stack[i], "wild"), l) = 1

\* C3: the first listener of the type raised, and emit has gone on to call
\* another listener of the type and a wildcard listener
C3_Witness ==
    /\ stack # <<>>
    /\ Delivered(Top)
    /\ Top.raisedAt = 1
    /\ Len(CalledVia(Top, "type")) >= 2
    /\ Len(CalledVia(Top, "wild")) >= 1
    /\ ~uncaught

\* C4: each forEach of emit notifies the listeners that were in its Set when
\* it began, whatever the listeners subscribe or unsubscribe meanwhile: it
\* calls no listener subscribed since, and leaves out none
C4_SnapshotPerPhase ==
    \A i \in 1..Len(stack) :
        /\ stack[i].cur # NoListener => stack[i].cur \in stack[i].snap
        /\ (/\ ~stack[i].subs
            /\ stack[i].cur = NoListener
            /\ stack[i].idx >= Len(CurrentSet(stack[i])))
              => \A l \in stack[i].snap :
                    Times(CalledVia(stack[i], stack[i].phase), l) = 1

\* emit begins to call a listener's callback or handle
CallBegins ==
    /\ stack # <<>>
    /\ Len(stack') = Len(stack)
    /\ Top.cur = NoListener
    /\ stack'[Len(stack')].cur # NoListener

\* C5: a listener that has unsubscribed its own handle while being called is
\* not called again through that subscription, in this emit or a later one
C5_SelfUnsubscribe ==
    [][CallBegins =>
          CalledRegistration(stack'[Len(stack')]) \notin retired]_vars

\* C6: when listeners unsubscribe themselves or others during an emit, every
\* listener that is still subscribed when emit returns has been called once,
\* and none was called twice
C6_NoneSkipped ==
    \A i \in 1..Len(stack) :
        /\ ~stack[i].subs =>
              \A l \in Listeners :
                 /\ Times(CalledVia(stack[i], "type"), l) <= 1
                 /\ Times(CalledVia(stack[i], "wild"), l) <= 1
        /\ (~stack[i].subs /\ Delivered(stack[i])) =>
              /\ \A l \in Range(PhaseSet("type", stack[i].type)) :
                    Times(CalledVia(stack[i], "type"), l) = 1
              /\ \A l \in Range(wildcardListeners) :
                    Times(CalledVia(stack[i], "wild"), l) = 1

\* C6: the first listener of the type was unsubscribed during the emit, by
\* itself or by the listener after it, and emit has called them both
C6_Witness ==
    /\ stack # <<>>
    /\ Delivered(Top)
    /\ Len(CalledVia(Top, "type")) >= 2
    /\ CalledVia(Top, "type")[1] \in Top.removed
    /\ CalledVia(Top, "type")[1] \notin Range(PhaseSet("type", Top.type))
    /\ CalledVia(Top, "type")[2] \notin Top.removed

\* emit has no listener left to notify
NoneLeft(act) ==
    /\ act.idx >= Len(CurrentSet(act))
    /\ act.phase = "wild" \/ wildcardListeners = <<>>

\* C7: emit calls do not interleave: an emit made by a listener notifies no
\* listener before the emit in progress has notified all of its own
C7_NoInterleaving ==
    \A i \in 2..Len(stack) :
        stack[i].cur # NoListener => NoneLeft(stack[i - 1])

\* C8: every emit call returns, whatever its listeners subscribe and
\* unsubscribe
C8_EmitTerminates == (stack # <<>>) ~> (stack = <<>>)

\* The step is the unsubscribe() of the active handle hd
Unsubscribed(hd) ==
    /\ isActive(hd)
    /\ CopiesIn(hd, handles') < CopiesIn(hd, handles)

\* C9: subscribe and the unsubscribe of its handle leave getSubscriberCount
\* as it was: the unsubscribe takes off what the subscribe added
C9_CountRestored ==
    [][\A hd \in Held :
          (Unsubscribed(hd) /\ ~hd.viaAll) =>
              getSubscriberCount(listeners', hd.eventType)
                = getSubscriberCount(listeners, hd.eventType)
                    - (IF hd.added THEN 1 ELSE 0)]_vars

\* The listener of a handle is in the Set its subscription put it in
Registered(reg, wild, hd) == InRegistry(reg, wild, HandleRegistration(hd))

\* C10: unsubscribe() on one handle leaves the subscription of every other
\* active handle registered
C10_OnlyItsOwn ==
    [][\A hd \in Held :
          Unsubscribed(hd) =>
              \A other \in BagToSet(handles') :
                  (isActive(other) /\ Registered(listeners, wildcardListeners,
                                                 other))
                     => Registered(listeners', wildcardListeners', other)]_vars

\* The step is a call of unsubscribe() on the handle hd, which a call of
\* unsubscribe() had ended before
UnsubscribedAgain(hd) ==
    /\ ~hd.active
    /\ ~hd.again
    /\ CopiesIn(Spent(hd), handles') > CopiesIn(Spent(hd), handles)

\* C11: a second call of unsubscribe() on a handle changes no registration
\* and no handle: the handle stays as the first call left it, inactive
C11_UnsubscribeIdempotent ==
    [][\A hd \in Held :
          UnsubscribedAgain(hd) =>
              /\ listeners' = listeners
              /\ wildcardListeners' = wildcardListeners
              /\ ~Spent(hd).active
              /\ handles' (-) SetToBag({Spent(hd)})
                    = handles (-) SetToBag({hd})]_vars

\* C11: unsubscribe() was called a second time on a handle whose listener
\* has been subscribed to the same type again in between
C11_Witness ==
    \E hd \in Held :
        /\ hd.again
        /\ \E other \in Held :
              /\ isActive(other)
              /\ other.listener = hd.listener
              /\ other.eventType = hd.eventType
              /\ Registered(listeners, wildcardListeners, other)

Min(a, b) == IF a <= b THEN a ELSE b

\* C12: the history never holds more than maxHistorySize events, and holds
\* the most recent min(emitted, maxHistorySize) events in emission order
C12_HistoryFifo ==
    /\ Len(eventHistory) = Min(emitted, maxHistorySize)
    /\ \A i \in 1..Len(eventHistory) :
          eventHistory[i].n = emitted - Len(eventHistory) + i

\* C12: maxHistorySize + 1 events were emitted; the history is full and its
\* oldest entry is the second event
C12_Witness ==
    /\ emitted = maxHistorySize + 1
    /\ Len(eventHistory) = maxHistorySize
    /\ eventHistory[1].n = 2

\* C13: getRegisteredEventTypes() holds exactly the types with at least one
\* listener in their Set: no empty Set stays in the Map
C13_RegisteredTypes ==
    \A t \in SubscribedTypes \cup StarTypes :
        t \in getRegisteredEventTypes <=> getSubscriberCount(listeners, t) > 0

\* C13: during the dispatch of an event a listener has unsubscribed the last
\* listener of the event's type, and the type is not registered any more
C13_Witness ==
    /\ stack # <<>>
    /\ Top.cur # NoListener
    /\ Top.det
    /\ Top.type \notin getRegisteredEventTypes

\* C14: a handler whose canHandle answers false does not have handle called,
\* and emit calls every other listener of the type and every other wildcard
\* listener all the same
C14_CanHandleFilter ==
    \A i \in 1..Len(stack) :
        Untouched(stack[i]) =>
            /\ \A j \in 1..Len(stack[i].calls) :
                  stack[i].calls[j].handled <=> stack[i].calls[j].can = "true"
            /\ (Delivered(stack[i])
                  /\ \E j \in 1..Len(stack[i].calls) :
                        stack[i].calls[j].can = "false")
                 => CallOrder(stack[i]) = SubscriptionOrder(stack[i].type)

\* C14: the handler B, subscribed to the type between A and the wildcard
\* listener C, answered false; A and C were called
C14_Witness ==
    /\ stack # <<>>
    /\ Delivered(Top)
    /\ CallOrder(Top) = <<<<"type", "A">>, <<"type", "B">>, <<"wild", "C">>>>
    /\ Top.calls[2].can = "false"
    /\ ~Top.calls[2].handled
    /\ Top.calls[1].handled
    /\ Top.calls[3].handled

\* C15: after clear() every subscriber count is 0 and no type is registered,
\* until a listener is subscribed again; an emit called after clear() calls
\* no listener whose subscription clear() dropped; clear() leaves the history
\* as it is
C15_ClearDropsAll ==
    /\ [](\A r \in cleared : ~InRegistry(listeners, wildcardListeners, r))
    /\ [](\A i \in 1..Len(stack) :
            (~stack[i].old /\ stack[i].cur # NoListener)
               => CalledRegistration(stack[i]) \notin cleared)
    /\ [][~(cleared' \subseteq cleared) =>
             /\ \A t \in SubscribedTypes \cup StarTypes :
                   getSubscriberCount(listeners', t) = 0
             /\ getRegisteredEventTypes' = {}
             /\ wildcardListeners' = <<>>
             /\ eventHistory' = eventHistory]_vars

\* C15: clear() has dropped a type listener and a wildcard listener, the
\* history holds an event emitted before it, and an emit called after it is
\* about to return without a call
C15_Witness ==
    /\ \E r \in cleared : r.kind = "type"
    /\ \E r \in cleared : r.kind = "wild"
    /\ stack # <<>>
    /\ ~Top.old
    /\ Delivered(Top)
    /\ Top.calls = <<>>
    /\ Len(eventHistory) = 2

\* isHandlerActive
isHandlerActive(h) == handlerState[h].isActive

\* The subscriptions one setupSubscriptions of the handler makes
Installs(h) == IF InstalledTypes(h) = <<>> THEN 1 ELSE Len(InstalledTypes(h))

\* A step is a start() on the started handler h or a stop() on the stopped
\* handler h
RepeatedCall(h) ==
    \/ handlerState'[h].restarted /\ ~handlerState[h].restarted
    \/ handlerState'[h].restopped /\ ~handlerState[h].restopped

\* C16: start() on a started handler and stop() on a stopped handler leave
\* isHandlerActive(), the handles the handler has recorded and the
\* dispatcher's registrations as they were, and a handler never holds more
\* handles than one setupSubscriptions makes: a second start() does not
\* install its subscriptions a second time.
C16_LifecycleIdempotent ==
    /\ [][\A h \in Handlers :
            RepeatedCall(h) =>
                /\ isHandlerActive(h)' = isHandlerActive(h)
                /\ handlerState'[h].subscriptions
                      = handlerState[h].subscriptions
                /\ listeners' = listeners
                /\ wildcardListeners' = wildcardListeners]_vars
    /\ [](\A h \in Handlers :
            Len(handlerState[h].subscriptions) <= Installs(h))

\* C16: start() was called on the started "ui" handler, whose subscriptions
\* are registered, and stop() on the "debug" handler after it had been
\* started and stopped.
C16_Witness ==
    /\ handlerState["ui"].restarted
    /\ isHandlerActive("ui")
    /\ Len(handlerState["ui"].subscriptions) = Installs("ui")
    /\ handlerState["debug"].restopped
    /\ handlerState["debug"].starts > 0
    /\ ~isHandlerActive("debug")

\* The listeners the handler h has subscribed in its start() calls so far
HandlerListeners(h) ==
    IF InstalledTypes(h) = <<>> THEN {h}
    ELSE {Closure(h, t, k) : t \in Range(InstalledTypes(h)),
                            k \in 1..handlerState[h].starts}

\* The started handlers that have a subscription to the type, and those
\* that have one to every event
StartedFor(eventType) ==
    {h \in Handlers : isHandlerActive(h)
                        /\ eventType \in Range(InstalledTypes(h))}

StartedForAll ==
    {h \in Handlers : isHandlerActive(h) /\ InstalledTypes(h) = <<>>}

\* The listeners in the Set of a type
InSet(eventType) ==
    IF eventType \in DOMAIN listeners THEN Range(listeners[eventType])
    ELSE {}

\* C17: a stopped handler has no handle recorded and none of the listeners
\* its start() calls subscribed is in a Set of the dispatcher; at any time
\* the subscriber count of a type is the number of the application's
\* listeners for it plus one for each started handler that subscribes to
\* it (and so with the wildcard Set): a stopped handler counts for
\* nothing and a handler started again counts once.
C17_StopRemovesAll ==
    /\ \A h \in Handlers :
          ~isHandlerActive(h) =>
              /\ handlerState[h].subscriptions = <<>>
              /\ HandlerListeners(h) \cap Range(wildcardListeners) = {}
              /\ \A t \in DOMAIN listeners :
                    HandlerListeners(h) \cap Range(listeners[t]) = {}
    /\ \A t \in SubscribedTypes :
          getSubscriberCount(listeners, t)
            = Cardinality(InSet(t) \cap Listeners)
                + Cardinality(StartedFor(t))
    /\ Len(wildcardListeners)
          = Cardinality(Range(wildcardListeners) \cap Listeners)
              + Cardinality(StartedForAll)

\* C17: the "ui" handler was started, stopped, started and stopped again,
\* while the "debug" handler is started and the application has a listener
\* for "win".
C17_Witness ==
    /\ handlerState["ui"].starts = 2
    /\ ~isHandlerActive("ui")
    /\ isHandlerActive("debug")
    /\ getSubscriberCount(listeners, "win") > 0

\* The wildcard subscriptions of the logger
LoggerSubscriptions == LoggerClosures \cap Range(wildcardListeners)

\* The entries of the logger's buffer that come from events
EventEntries == SelectSeq(logger.logs, LAMBDA e : e.type # MessageEvent.type)

\* C18: the logger has exactly one wildcard subscription while it is
\* started and none while it is stopped; every entry of its buffer that
\* comes from an event was added while it was started, and no event has
\* more than one entry.
C18_LoggerLifecycle ==
    /\ Cardinality(LoggerSubscriptions) = IF logger.isActive THEN 1 ELSE 0
    /\ \A i \in 1..Len(EventEntries) : EventEntries[i].active
    /\ \A i, j \in 1..Len(EventEntries) :
          EventEntries[i].n = EventEntries[j].n => i = j

\* The logger was started once, at level INFO and with no filter, and has
\* not been stopped or configured since; since then `count` events were
\* emitted, all of the type, and every emit call has returned
StartedAtInfo(eventType, count) ==
    /\ logger.isActive
    /\ logger.made = 1
    /\ logger.steady
    /\ logger.config.logLevel = INFO
    /\ logger.config.filterEventTypes = {}
    /\ logger.config.excludeEventTypes = {}
    /\ stack = <<>>
    /\ emitted = logger.since + count
    /\ \A i \in logger.since + 1..emitted : eventHistory[i].type = eventType

\* C19: with a logger started at level INFO with no filters, after 3 events
\* of type "x" were emitted getLogsByEventType("x") is 3 entries, those of
\* the 3 events in the order of their emission.
C19_ThreeEntries ==
    StartedAtInfo("x", 3) =>
        LET entries == getLogsByEventType(logger, "x")
        IN  [i \in 1..Len(entries) |-> entries[i].n]
              = [i \in 1..3 |-> logger.since + i]

\* What a step adds to the logger's buffer, and to what it has output
AddedEntries ==
    {logger'.logs[i] : i \in Len(logger.logs) + 1..Len(logger'.logs)}

AddedOutput == logger'.printed \ logger.printed

\* C20: every entry in the logger's buffer, from an event or from log(),
\* and everything the logger has output has a level at or below the
\* threshold under which it was added; and whatever a step adds to the
\* buffer or to the output has a level at or below the threshold the
\* logger has in that step.
C20_LevelGate ==
    /\ [](\A i \in 1..Len(logger.logs) :
            logger.logs[i].level <= logger.logs[i].gate)
    /\ [](\A p \in logger.printed : p.level <= p.gate)
    /\ [][/\ \A e \in AddedEntries : e.level <= logger'.config.logLevel
          /\ \A p \in AddedOutput : p.level <= logger'.config.logLevel]_vars

\* C20: the buffer holds an entry of an event and an ERROR entry of log(),
\* added under different thresholds.
C20_Witness ==
    \E i, j \in 1..Len(logger.logs) :
        /\ logger.logs[i].type \in LoggedTypes
        /\ logger.logs[j].type = MessageEvent.type
        /\ logger.logs[j].level = ERROR
        /\ logger.logs[i].gate # logger.logs[j].gate

\* A step in which the function the logger subscribed runs
Capturing ==
    /\ stack # <<>>
    /\ Top.cur \in LoggerClosures
    /\ stack' # stack

\* The step adds an entry for the event being delivered to the buffer
Retains ==
    /\ Len(logger'.logs) = Len(logger.logs) + 1
    /\ logger'.logs[Len(logger'.logs)].type = Top.type
    /\ logger'.logs[Len(logger'.logs)].n = Top.n
    /\ SubSeq(logger'.logs, 1, Len(logger.logs)) = logger.logs

\* C21: of the events that pass the level gate, a logger with
\* filterEventTypes ["a"] and excludeEventTypes ["a", "b"] retains those of
\* type "a" and no other, and a logger with no filterEventTypes and
\* excludeEventTypes ["b"] retains those of every type but "b".
C21_IncludeWins ==
    [][(Capturing /\ Passes(logger, DEBUG)) =>
          /\ (/\ logger.config.filterEventTypes = {"a"}
              /\ logger.config.excludeEventTypes = {"a", "b"})
                 => (Retains <=> Top.type = "a")
          /\ (/\ logger.config.filterEventTypes = {}
              /\ logger.config.excludeEventTypes = {"b"})
                 => (Retains <=> Top.type # "b")]_vars

\* C21: a logger with filterEventTypes ["a"] and excludeEventTypes
\* ["a", "b"], started before any event, has been delivered an event of
\* type "b" and then one of type "a", and holds an entry for the second.
C21_Witness ==
    /\ logger.config.filterEventTypes = {"a"}
    /\ logger.config.excludeEventTypes = {"a", "b"}
    /\ logger.since = 0
    /\ stack = <<>>
    /\ Len(eventHistory) = 2
    /\ eventHistory[1].type = "b"
    /\ eventHistory[2].type = "a"
    /\ Len(EventEntries) = 1
    /\ EventEntries[1].n = 2

\* C22: the logger's buffer never holds more entries than the maxLogEntries
\* of its configuration, and a full buffer that gets an entry loses its
\* oldest one.
C22_BufferBounded ==
    /\ [](Len(logger.logs) <= logger.config.maxLogEntries)
    /\ [][(/\ logger'.logs # logger.logs
           /\ logger'.config.maxLogEntries = logger.config.maxLogEntries
           /\ Len(logger.logs) = logger.config.maxLogEntries
           /\ Len(logger'.logs) = logger.config.maxLogEntries)
          => SubSeq(logger'.logs, 1, Len(logger.logs) - 1)
               = Tail(logger.logs)]_vars

\* C23: when clearLogs() has returned, and before the logger is called
\* again, getLogs() returns no entry and getEventStats() is the empty
\* mapping.
C23_ClearLogsEmpties ==
    logger.last = "clearLogs" =>
        /\ getLogs(logger) = <<>>
        /\ DOMAIN getEventStats(logger) = {}

\* A step in which updateConfig changes the logger
Updating == logger'.last = "updateConfig" /\ logger' # logger

\* C24: updateConfig changes the settings it is given and no other, removes
\* and alters no entry the buffer holds, and the event delivered to the
\* logger afterwards is retained exactly when it passes the level and the
\* filters of the configuration as it then is.
C24_UpdateNotRetroactive ==
    [][/\ Updating =>
            /\ \E field \in DOMAIN logger.config :
                  \A f \in DOMAIN logger.config \ {field} :
                      logger'.config[f] = logger.config[f]
            /\ Len(logger'.logs) >= Len(logger.logs)
            /\ SubSeq(logger'.logs, 1, Len(logger.logs)) = logger.logs
       /\ Capturing =>
            (Retains <=>
                /\ DEBUG <= logger.config.logLevel
                /\ IF logger.config.filterEventTypes # {}
                   THEN Top.type \in logger.config.filterEventTypes
                   ELSE Top.type \notin logger.config.excludeEventTypes)]_vars

\* C24: the logger retained the first event, of type "a", its level was then
\* lowered to ERROR or its filters set to refuse "a", and the second event,
\* of type "a" too, was delivered and not retained: the entry of the first
\* is still in the buffer.
C24_Witness ==
    /\ stack = <<>>
    /\ Len(eventHistory) = 2
    /\ eventHistory[1].type = "a"
    /\ eventHistory[2].type = "a"
    /\ logger.since = 0
    /\ ~shouldLogEvent(logger, Event("a", 2), DEBUG)
    /\ Len(EventEntries) = 1
    /\ EventEntries[1].n = 1
    /\ logger.last = "logEvent"

\* The forEach over the wildcard listeners of the emit in progress has come
\* to its end, and the write of the entry of its event failed
FailedDuringEmit ==
    /\ stack # <<>>
    /\ Top.phase = "wild"
    /\ Top.cur = NoListener
    /\ Top.idx >= Len(wildcardListeners)
    /\ logger.failed
    /\ logger.last = "logEvent"
    /\ logger.logs # <<>>
    /\ logger.logs[Len(logger.logs)].n = Top.n

\* The wildcard listeners of the application that the emit in progress has
\* called
NotifiedByTop ==
    {Top.calls[i].l : i \in {j \in 1..Len(Top.calls) :
                                Top.calls[j].via = "wild"}}

\* C25: with persistence enabled, no call of emit or log ends with an
\* exception; a call whose write to localStorage fails has added its entry
\* to the buffer and left the saved snapshot as it was; and the emit whose
\* entry could not be saved has called every wildcard listener of the
\* application.
C25_WriteFailureCaught ==
    /\ [](~uncaught)
    /\ [][(logger'.failed /\ logger' # logger) =>
            /\ Len(logger'.logs) = Len(logger.logs) + 1
            /\ SubSeq(logger'.logs, 1, Len(logger.logs)) = logger.logs
            /\ localStorage' = localStorage]_vars
    /\ [](FailedDuringEmit =>
            (Range(wildcardListeners) \cap Listeners) \subseteq NotifiedByTop)

\* C25: the write of the entry of an event failed, and the handler the
\* application subscribed to all events after the logger started has been
\* called with that event.
C25_Witness ==
    /\ FailedDuringEmit
    /\ Len(wildcardListeners) = 2
    /\ wildcardListeners[1] \in LoggerClosures
    /\ wildcardListeners[2] = "B"
    /\ "B" \in NotifiedByTop
    /\ ~uncaught

\* The handlers that are started
ActiveHandlers == {h \in DOMAIN handlerState : isHandlerActive(h)}

\* The handlers in the manager's Map
InMap == {manager.handlers[i].handler : i \in 1..Len(manager.handlers)}

\* C26: when initialize() has been called twice in succession, the started
\* handlers are the three of the Map, one of each class; each has run one
\* start() that installed subscriptions and holds the handles of one
\* setupSubscriptions, and the dispatcher has one listener per handler and
\* event type and one wildcard listener for the debug handler.
C26_InitializeOnce ==
    (manager.last = "initialize" /\ manager.again) =>
        /\ ActiveHandlers = InMap
        /\ Cardinality(ActiveHandlers) = Len(Classes)
        /\ \A i \in 1..Len(Classes) :
              /\ handlersHas(manager.handlers, Classes[i])
              /\ ClassOf(getHandler(manager.handlers, Classes[i]))
                    = Classes[i]
        /\ \A h \in ActiveHandlers :
              /\ handlerState[h].starts = 1
              /\ Len(handlerState[h].subscriptions) = Installs(h)
        /\ \A t \in DOMAIN listeners :
              Len(listeners[t]) =
                  Cardinality({h \in ActiveHandlers :
                                  t \in Range(InstalledTypes(h))})
        /\ Cardinality(Range(wildcardListeners) \ LoggerClosures) =
              Cardinality({h \in ActiveHandlers : InstalledTypes(h) = <<>>})

\* C26: initialize() was called on the manager just initialized, and an
\* event was emitted and delivered since.
C26_Witness ==
    /\ manager.last = "initialize"
    /\ manager.again
    /\ manager.inits = 1
    /\ isHandlerActive(HandlerObject("ui", 1))
    /\ isHandlerActive(HandlerObject("animation", 1))
    /\ isHandlerActive(HandlerObject("debug", 1))
    /\ emitted = 1
    /\ stack = <<>>

\* The handlers a full initialize() constructs as its k-th set
DefaultHandlers(k) == {HandlerObject(Classes[i], k) : i \in 1..Len(Classes)}

\* C27: the manager as constructed is not ready; initialize() on a manager
\* that is ready leaves it ready and constructs nothing; initialize() on a
\* manager that is not ready, also after destroy(), makes it ready and
\* constructs, registers and starts a new set of default handlers; destroy()
\* leaves the manager not ready; and no other method changes isReady().
C27_TwoStates ==
    /\ [](manager.last = "constructor" => ~isReady(manager))
    /\ [][/\ (manager'.last = "initialize" /\ isReady(manager)) =>
                /\ isReady(manager')
                /\ manager'.inits = manager.inits
                /\ handlerState' = handlerState
          /\ (manager'.last = "initialize" /\ ~isReady(manager)
                 /\ manager' # manager) =>
                /\ isReady(manager')
                /\ manager'.inits = manager.inits + 1
                /\ DefaultHandlers(manager'.inits) \cap DOMAIN handlerState
                      = {}
                /\ \A h \in DefaultHandlers(manager'.inits) :
                      /\ handlerState'[h].isActive
                      /\ handlerState'[h].starts = 1
                      /\ getHandler(manager'.handlers, ClassOf(h)) = h
          /\ (manager'.last = "destroy" /\ manager' # manager) =>
                ~isReady(manager')
          /\ isReady(manager') # isReady(manager) =>
                manager'.last \in {"initialize", "destroy"}]_vars

\* C27: the manager was initialized, destroyed and initialized again: it is
\* ready, and the handlers of its Map are those of the second set, started.
C27_Witness ==
    /\ isReady(manager)
    /\ manager.inits = 2
    /\ manager.last = "initialize"
    /\ InMap = DefaultHandlers(2)
    /\ \A h \in DefaultHandlers(2) : isHandlerActive(h)
    /\ \A h \in DefaultHandlers(1) :
          ~isHandlerActive(h) /\ handlerState[h].starts = 1

\* EventLogger.isLogging
isLogging(lg) == lg.isActive

\* C28: when destroy() has returned, no handler is started, the manager's
\* logger, if it has one, is not logging, the manager's Map is empty and
\* the dispatcher has no listener, for a type or for every event.
C28_DestroyStopsAll ==
    manager.last = "destroy" =>
        /\ \A h \in DOMAIN handlerState : ~isHandlerActive(h)
        /\ manager.eventLogger => ~isLogging(logger)
        /\ manager.handlers = <<>>
        /\ listeners = <<>>
        /\ wildcardListeners = <<>>

\* C28: a manager initialized with a logger was destroyed after an event
\* had been delivered to its handlers.
C28_Witness ==
    /\ manager.last = "destroy"
    /\ manager.inits = 1
    /\ manager.eventLogger
    /\ logger.made = 1
    /\ \A h \in DefaultHandlers(1) : handlerState[h].starts = 1
    /\ emitted = 1
    /\ stack = <<>>

\* EventBus.getEventHistory
getEventHistory == eventHistory

\* C29: when destroy() has returned, the history of the manager's
\* dispatcher is empty.
C29_DestroyClearsHistory ==
    manager.last = "destroy" => getEventHistory = <<>>

\* A step of addHandler
Adding ==
    /\ manager'.last = "addHandler"
    /\ manager' # manager \/ handlerState' # handlerState

\* The listeners of the handler h that the dispatcher holds after the step
Subscribed(h) ==
    HandlerListeners(h)
        \cap (Range(wildcardListeners')
                \cup UNION {Range(listeners'[t]) : t \in DOMAIN listeners'})

\* C30: after addHandler(name, handler), getHandler(name) is the handler;
\* another handler that was registered under the name is stopped and has no
\* listener left in the dispatcher; and the handler is started, with the
\* handles of one setupSubscriptions, if the manager is initialized, and is
\* not started if it is not.
C30_AddHandlerReplaces ==
    [][Adding =>
         LET name == manager'.arg.name
             handler == manager'.arg.handler
         IN  /\ handlersHas(manager'.handlers, name)
             /\ getHandler(manager'.handlers, name) = handler
             /\ (/\ handlersHas(manager.handlers, name)
                 /\ getHandler(manager.handlers, name) # handler) =>
                   /\ ~handlerState'[getHandler(manager.handlers,
                                                name)].isActive
                   /\ Subscribed(getHandler(manager.handlers, name)) = {}
             /\ handlerState'[handler].isActive <=> manager.isInitialized
             /\ manager.isInitialized =>
                   Len(handlerState'[handler].subscriptions)
                      = Installs(handler)]_vars

\* C30: the initialized manager was given a UIEventHandler of the
\* application under the name "ui": the default handler of that name has
\* been started once and is stopped, and the new one is started.
C30_Witness ==
    /\ manager.last = "addHandler"
    /\ manager.isInitialized
    /\ manager.arg = [name |-> "ui", handler |-> "ui"]
    /\ handlerState[HandlerObject("ui", 1)].starts = 1
    /\ ~isHandlerActive(HandlerObject("ui", 1))
    /\ isHandlerActive("ui")
    /\ getHandler(manager.handlers, "ui") = "ui"

\* A step of removeHandler
Removing ==
    /\ manager'.last = "removeHandler"
    /\ manager' # manager \/ handlerState' # handlerState

\* C31: after removeHandler(name) of a name the Map has, getHandler(name)
\* finds no handler, the handler that was under the name is stopped and has
\* no listener left in the dispatcher; removeHandler(name) of a name the Map
\* does not have leaves the Map, the handlers and the dispatcher as they
\* were.
C31_RemoveHandlerDiscards ==
    [][Removing =>
         LET name == manager'.arg.name IN
         IF handlersHas(manager.handlers, name)
         THEN /\ ~handlersHas(manager'.handlers, name)
              /\ ~handlerState'[getHandler(manager.handlers, name)].isActive
              /\ Subscribed(getHandler(manager.handlers, name)) = {}
         ELSE /\ manager'.handlers = manager.handlers
              /\ manager'.isInitialized = manager.isInitialized
              /\ UNCHANGED <<listeners, wildcardListeners, handlerState,
                             eventHistory, logger>>]_vars

\* C31: the default handler "ui" of the initialized manager, which was
\* started, has been removed and is stopped, and the "animation" handler
\* is still registered and started.
C31_Witness ==
    /\ manager.last = "removeHandler"
    /\ manager.arg.name = "ui"
    /\ manager.isInitialized
    /\ ~handlersHas(manager.handlers, "ui")
    /\ handlerState[HandlerObject("ui", 1)].starts = 1
    /\ ~isHandlerActive(HandlerObject("ui", 1))
    /\ handlersHas(manager.handlers, "animation")
    /\ isHandlerActive(HandlerObject("animation", 1))

\* C32: of two event records, the one created later has the id that
\* compares greater; no two records have the same id.
C32_IdsIncrease ==
    \A i, j \in 1..Len(ids.created) :
        i < j => compareUlids(ids.created[i], ids.created[j]) < 0

\* A step in which emit calls callListener for the first time for its event
FirstCall ==
    /\ stack # <<>>
    /\ Len(stack') = Len(stack)
    /\ Top.calls = <<>>
    /\ Len(stack'[Len(stack)].calls) = 1

\* C33: when emit calls its first listener for an event, the event is the
\* newest entry of the history; and every event emitted so far is in the
\* history, whether or not a listener was registered for it and whatever
\* its listeners did (fewer than maxHistorySize events being emitted).
C33_HistoryBeforeListeners ==
    /\ [][FirstCall =>
            /\ eventHistory # <<>>
            /\ eventHistory[Len(eventHistory)] = Event(Top.type, Top.n)]_vars
    /\ [](\A n \in 1..emitted :
            \E k \in 1..Len(eventHistory) : eventHistory[k].n = n)

\* C33: the first event was emitted with no listener registered; the
\* listener of the second event, the first one called for it, is running,
\* and both events are in the history.
C33_Witness ==
    /\ emitted = 2
    /\ Len(eventHistory) = 2
    /\ stack # <<>>
    /\ Top.n = 2
    /\ Len(Top.calls) = 1
    /\ Top.cur # NoListener
    /\ Cardinality(AllRegistrations(listeners, wildcardListeners)) = 1
    /\ ~\E hd \in DOMAIN handles : ~hd.active

\* C34: a logger whose configured level is NONE, passed to the constructor
\* and set again or not through updateConfig, retains no entry at all,
\* neither of an event nor of a log() call.
C34_NoneRetainsNothing == getLogs(logger) = <<>>

\* EventManager.getEventLogger and getDebugConsole: whether they return an
\* object
getEventLogger(m) == m.eventLogger

getDebugConsole(m) == m.debugConsole

\* C35: a manager that is ready, initialized for the first time or again
\* after destroy(), has what a new manager initialized with the same options
\* has: the default handlers of its last set in its Map, started; a logger
\* exactly when enableAdvancedLogging was given, which is logging at the
\* level given; and an introspection surface exactly when enableDebugConsole
\* and enableAdvancedLogging were given.
C35_DestroyResetsToFresh ==
    isReady(manager) =>
        /\ InMap = DefaultHandlers(manager.inits)
        /\ ActiveHandlers = InMap
        /\ getEventLogger(manager) = manager.options.enableAdvancedLogging
        /\ getEventLogger(manager) =>
              /\ isLogging(logger)
              /\ logger.config.logLevel = manager.options.logLevel
        /\ getDebugConsole(manager) =
              (manager.options.enableDebugConsole
                  /\ manager.options.enableAdvancedLogging)

\* The entries of the logger's buffer that are of events, in order
CapturedEntries(lg) ==
    SelectSeq(lg.logs, LAMBDA e : e.type # MessageEvent.type)

\* C36: a subscriber to every event, here the function the logger subscribed,
\* is given the events in the order of their emission, also when a listener
\* of a type emits while it runs: the entries of events in the logger's
\* buffer are in the order in which the events were appended to the history.
C36_WildcardEmissionOrder ==
    LET entries == CapturedEntries(logger) IN
    \A i, j \in 1..Len(entries) :
        i < j => entries[i].n < entries[j].n

\* C37: in every state, a handle is active exactly when its listener is in
\* the Set of the handle's type, or in the wildcard Set for a handle of
\* subscribeToAll, also after clear(); and every handle a started handler
\* holds has its listener registered.
C37_ActiveIffRegistered ==
    /\ \A hd \in Held :
          isActive(hd) <=> Registered(listeners, wildcardListeners, hd)
    /\ \A h \in ActiveHandlers :
          \A i \in 1..Len(handlerState[h].subscriptions) :
              Registered(listeners, wildcardListeners,
                         handlerState[h].subscriptions[i])

\* The step is a subscribe call that returns the handle hd
Returned(hd) ==
    /\ isActive(hd)
    /\ CopiesIn(hd, handles') > CopiesIn(hd, handles)

\* C38: subscribe with the type "*" puts the listener in the Set of the type
\* "*" and leaves the wildcard Set as it is; and the unsubscribe() of the
\* handle it returned takes the listener out of that Set again, so that
\* getSubscriberCount("*") is what it was before the subscribe, and leaves
\* the wildcard Set as it is.
C38_StarIsOrdinaryType ==
    /\ [][\A hd \in BagToSet(handles') :
             (Returned(hd) /\ ~hd.viaAll /\ hd.eventType = "*") =>
                 /\ Registered(listeners', wildcardListeners', hd)
                 /\ wildcardListeners' = wildcardListeners]_vars
    /\ [][\A hd \in Held :
             (Unsubscribed(hd) /\ ~hd.viaAll /\ hd.eventType = "*") =>
                 /\ getSubscriberCount(listeners', "*")
                      = getSubscriberCount(listeners, "*")
                          - (IF hd.added THEN 1 ELSE 0)
                 /\ hd.added =>
                       ~Registered(listeners', wildcardListeners', hd)
                 /\ wildcardListeners' = wildcardListeners]_vars

\* A step of initialize() that runs to the end
Initializing == manager'.inits = manager.inits + 1

\* C39: an initialize() that runs to the end keeps every handler that
\* addHandler had put in the Map before it: getHandler of its name still
\* returns it, it is started, and this initialize() has started it once.
C39_InitializeKeepsAdded ==
    [][Initializing =>
         \A i \in 1..Len(manager.handlers) :
            LET name == manager.handlers[i].name
                handler == manager.handlers[i].handler
            IN  /\ handlersHas(manager'.handlers, name)
                /\ getHandler(manager'.handlers, name) = handler
                /\ handlerState'[handler].isActive
                /\ handlerState'[handler].starts
                     = handlerState[handler].starts + 1]_vars

\* The number of events the statistics tell of
Total(stats) ==
    Cardinality({<<t, k>> \in (DOMAIN stats) \X (1..MaxLoggedEmits) :
                    k <= stats[t]})

\* What the statistics tell of one type
CountOf(stats, eventType) ==
    IF eventType \in DOMAIN stats THEN stats[eventType] ELSE 0

\* The emit calls in progress for events of the type that have not called
\* the handler h yet, or whose call of it has not returned
Pending(h, eventType) ==
    Cardinality({i \in 1..Len(stack) :
        /\ stack[i].type = eventType
        /\ \/ stack[i].cur = h
           \/ ~\E j \in 1..Len(stack[i].calls) :
                  /\ stack[i].calls[j].l = h
                  /\ stack[i].calls[j].via = "wild"})

\* C40: while the manager has a handler named 'debug' that is started at a
\* level other than 'none' and subscribed, getEventStats() gives for each
\* event type the number of events of the type emitted, by the application
\* or by a listener, since the handler was constructed or clearStats() was
\* called, not counting those emitted while the handler was stopped or at
\* the level 'none': between emit calls it is exactly that mapping, and
\* during an emit call it lacks only the events whose emit call has not
\* reached the handler yet. getEventStats() is null while the manager has
\* no handler named 'debug'.
C40_EventStats ==
    IF handlersHas(manager.handlers, "debug")
    THEN LET h == getHandler(manager.handlers, "debug") IN
         Counting(h) =>
             /\ stack = <<>> => getEventStatsOfManager = handlerState[h].due
             /\ \A t \in StatsTypes :
                   CountOf(getEventStatsOfManager, t) + Pending(h, t)
                      = CountOf(handlerState[h].due, t)
    ELSE getEventStatsOfManager = "null"

\* C40: three events were emitted, the first while the handler was stopped
\* or at the level 'none', the third by a listener of the second: the
\* handler has counted the third and has not been called with the second
\* yet, and the statistics tell of one event.
C40_Witness ==
    /\ Len(stack) = 2
    /\ emitted = 3
    /\ handlersHas(manager.handlers, "debug")
    /\ Counting(getHandler(manager.handlers, "debug"))
    /\ Top.cur = NoListener
    /\ Pending(getHandler(manager.handlers, "debug"), Top.type) = 0
    /\ Total(getEventStatsOfManager) = 1
    /\ Total(handlerState[getHandler(manager.handlers, "debug")].due) = 2

====
